---------------------------- MODULE Spec2Model ----------------------------
(***************************************************************************)
(* Zero-vibration input shaping (zaber-examples, motion_input_shaping).    *)
(*                                                                         *)
(* The model covers the two single-axis generators                         *)
(*   ZeroVibrationStreamGenerator      (segment mode)                      *)
(*   ZeroVibrationTrajectoryGenerator  (sampled-point mode)                *)
(* and the two-axis ZeroVibrationStreamGenerator2D, and the axes that move *)
(* by them: ShapedAxis, ShapedAxisStream and ShapedAxisStream2D, each an   *)
(* object holding its device axes (settings, position, homed) and the      *)
(* commands its last move sent to the stream.                              *)
(*                                                                         *)
(* Numbers are exact rationals <<numerator, denominator>>.  The two        *)
(* transcendental steps of the code are rounded to rationals: math.sqrt /  *)
(* np.sqrt round down to a grid of 1/SqrtScale, and math.exp is tabulated  *)
(* (DecayFactor).  Python exceptions are results [raised |-> kind].  The   *)
(* order numpy's default argsort leaves equal keys in is not fixed by the  *)
(* code: it is the variable tie_order, chosen once and never changed.      *)
(***************************************************************************)
EXTENDS Integers, Sequences, FiniteSets, TLC

VARIABLES
    gen,    \* the object under test (NoObject before construction)
    ret,    \* the last call: operation, arguments, exception raised, value returned
    pre,    \* the object as it was when the last call started
    tie_order   \* how the installed numpy orders equal keys in argsort()

vars == <<gen, ret, pre, tie_order>>

---------------------------------------------------------------------------
(* Bounds of the explored inputs. *)

MaxFrequency == 2
MaxDistance == 2
MaxAcceleration == 2
MaxSpeed == 2
SqrtScale == 4
MaxDampingTenths == 10

---------------------------------------------------------------------------
(* Exact rational arithmetic. *)

Abs(n) == IF n < 0 THEN -n ELSE n

RECURSIVE GCD(_, _)
GCD(a, b) == IF b = 0 THEN a ELSE GCD(b, a % b)

Q(n, d) ==
    LET s == IF d < 0 THEN -1 ELSE 1
        g == GCD(Abs(n), Abs(d))
    IN  <<(s * n) \div g, (s * d) \div g>>

QInt(n) == <<n, 1>>
Zero == <<0, 1>>
One == <<1, 1>>

LCM(a, b) == (a \div GCD(a, b)) * b

QAdd(a, b) ==
    LET m == LCM(a[2], b[2])
    IN  Q(a[1] * (m \div a[2]) + b[1] * (m \div b[2]), m)
QSub(a, b) ==
    LET m == LCM(a[2], b[2])
    IN  Q(a[1] * (m \div a[2]) - b[1] * (m \div b[2]), m)
QMul(a, b) ==
    LET g1 == GCD(Abs(a[1]), b[2])
        g2 == GCD(Abs(b[1]), a[2])
    IN  Q((a[1] \div g1) * (b[1] \div g2), (a[2] \div g2) * (b[2] \div g1))
QDiv(a, b) ==
    IF b[1] < 0 THEN QMul(a, <<-b[2], -b[1]>>) ELSE QMul(a, <<b[2], b[1]>>)
QNeg(a) == <<-a[1], a[2]>>
QAbs(a) == <<Abs(a[1]), a[2]>>
QLt(a, b) ==
    LET m == LCM(a[2], b[2])
    IN  a[1] * (m \div a[2]) < b[1] * (m \div b[2])
QLe(a, b) == a = b \/ QLt(a, b)
QMax(a, b) == IF QLt(a, b) THEN b ELSE a
QSign(a) == IF a[1] > 0 THEN One ELSE IF a[1] < 0 THEN QInt(-1) ELSE Zero

RECURSIVE QSum(_)
QSum(s) == IF s = <<>> THEN Zero ELSE QAdd(Head(s), QSum(Tail(s)))

(* Largest r in lo .. hi with r * r <= n (lo * lo <= n). *)
RECURSIVE ISqrtIn(_, _, _)
ISqrtIn(n, lo, hi) ==
    IF lo >= hi THEN lo
    ELSE IF ((lo + hi + 1) \div 2) * ((lo + hi + 1) \div 2) <= n
    THEN ISqrtIn(n, (lo + hi + 1) \div 2, hi)
    ELSE ISqrtIn(n, lo, ((lo + hi + 1) \div 2) - 1)

ISqrt(n) == ISqrtIn(n, 0, IF n < 46340 THEN n ELSE 46340)

IsSquare(n) == ISqrt(n) * ISqrt(n) = n

(* n / d with both halved until n * SqrtScale^2 fits a 32-bit integer.     *)
RECURSIVE Coarse(_, _)
Coarse(n, d) ==
    IF n <= 2147483647 \div (SqrtScale * SqrtScale) THEN <<n, d>>
    ELSE Coarse(n \div 2, (d + 1) \div 2)

(* math.sqrt / np.sqrt of a >= 0: exact when the root is rational, else    *)
(* rounded down to a multiple of 1 / SqrtScale, as the floating-point root *)
(* is rounded.                                                             *)
QSqrt(a) ==
    IF IsSquare(a[1]) /\ IsSquare(a[2])
    THEN Q(ISqrt(a[1]), ISqrt(a[2]))
    ELSE Q(ISqrt((Coarse(a[1], a[2])[1] * SqrtScale * SqrtScale)
                     \div Coarse(a[1], a[2])[2]), SqrtScale)

---------------------------------------------------------------------------
(* Input domains. *)

ShaperType == {"ZV", "ZVD", "ZVDD"}
ShaperTypeValues == ShaperType \cup {"UNSUPPORTED"}

FrequencyValues == {QInt(-1), Zero, One, QInt(MaxFrequency)}
DampingValues == {Q(-1, 5), Zero, Q(1, 5), One, QInt(2)}

NoObject == [cls |-> "none"]
NoError == "none"

(* None is the empty list, which no impulse set is.                        *)
None == <<>>

---------------------------------------------------------------------------
(* Impulse shaper. *)

(* Decay factor k = math.exp(-pi * zeta / math.sqrt(1 - zeta ** 2)).       *)
(* zeta > 1: math.sqrt of a negative number raises ValueError;             *)
(* zeta = 1: the float division by sqrt(0) = 0.0 raises ZeroDivisionError; *)
(* zeta = 0: exp(0) = 1 exactly; 0 < zeta < 1: the exponential, rounded to *)
(* the rational 1 / (1 + 5 * zeta) of (0, 1) (zeta = 0.2: exp(-0.641) =    *)
(* 0.527, here 1/2).                                                       *)
DecayFactor(damping_ratio) ==
    LET radicand == QSub(One, QMul(damping_ratio, damping_ratio))
    IN  IF QLt(radicand, Zero) THEN [raised |-> "ValueError:math domain error"]
        ELSE IF radicand = Zero THEN [raised |-> "ZeroDivisionError"]
        ELSE [raised |-> NoError,
              k |-> QDiv(One, QAdd(One, QMul(QInt(5), damping_ratio)))]

resonant_period(self) == QDiv(One, self.resonant_frequency)

(* ZV with the amplitudes 1 and k, not divided by 1 + k. *)
ZV_case_unnormalised(k, T) ==
    [impulses |-> <<One, k>>, impulse_times |-> <<Zero, QDiv(T, QInt(2))>>]

(* case ShaperType.ZV / ZVD / ZVDD of the match statement: the amplitude   *)
(* and time lists the case assigns.                                        *)
ZV_case(k, T) ==
    LET a0 == QDiv(One, QAdd(One, k))
        a1 == QDiv(k, QAdd(One, k))
        t0 == Zero
        t1 == QDiv(T, QInt(2))
    IN  [impulses |-> <<a0, a1>>, impulse_times |-> <<t0, t1>>]

(* ZVD with the middle amplitude k instead of 2k. *)
ZVD_case_single(k, T) ==
    LET k2 == QMul(k, k)
        den == QAdd(QAdd(One, QMul(QInt(2), k)), k2)
    IN  [impulses |-> <<QDiv(One, den), QDiv(k, den), QDiv(k2, den)>>,
         impulse_times |-> <<Zero, QDiv(T, QInt(2)), T>>]

ZVD_case(k, T) ==
    LET k2 == QMul(k, k)
        den == QAdd(QAdd(One, QMul(QInt(2), k)), k2)
        a0 == QDiv(One, den)
        a1 == QDiv(QMul(QInt(2), k), den)
        a2 == QDiv(k2, den)
        t0 == Zero
        t1 == QDiv(T, QInt(2))
        t2 == T
    IN  [impulses |-> <<a0, a1, a2>>, impulse_times |-> <<t0, t1, t2>>]

(* ZVDD with the last impulse at T instead of 3T/2. *)
ZVDD_case_repeated(k, T) ==
    LET k2 == QMul(k, k)
        k3 == QMul(k2, k)
        den == QAdd(QAdd(QAdd(One, QMul(QInt(3), k)), QMul(QInt(3), k2)), k3)
    IN  [impulses |-> <<QDiv(One, den), QDiv(QMul(QInt(3), k), den),
                        QDiv(QMul(QInt(3), k2), den), QDiv(k3, den)>>,
         impulse_times |-> <<Zero, QDiv(T, QInt(2)), T, T>>]

ZVDD_case(k, T) ==
    LET k2 == QMul(k, k)
        k3 == QMul(k2, k)
        den == QAdd(QAdd(QAdd(One, QMul(QInt(3), k)), QMul(QInt(3), k2)), k3)
        a0 == QDiv(One, den)
        a1 == QDiv(QMul(QInt(3), k), den)
        a2 == QDiv(QMul(QInt(3), k2), den)
        a3 == QDiv(k3, den)
        t0 == Zero
        t1 == QDiv(T, QInt(2))
        t2 == T
        t3 == QDiv(QMul(T, QInt(3)), QInt(2))
    IN  [impulses |-> <<a0, a1, a2, a3>>, impulse_times |-> <<t0, t1, t2, t3>>]

(* The same with a default case that falls through: an unmatched family    *)
(* keeps the lists it finds and the flag goes up.                          *)
Stream_update_shaper_impulses_default(self) ==
    LET kk == DecayFactor(self.damping_ratio)
        T == resonant_period(self)
        set == CASE self.shaper_type = "ZV" -> ZV_case(kk.k, T)
                 [] self.shaper_type = "ZVD" -> ZVD_case(kk.k, T)
                 [] self.shaper_type = "ZVDD" -> ZVDD_case(kk.k, T)
                 [] OTHER -> [impulses |-> self.impulses,
                              impulse_times |-> self.impulse_times]
    IN  IF kk.raised # NoError THEN [self |-> self, raised |-> kk.raised]
        ELSE [self |-> [self EXCEPT !.impulses = set.impulses,
                                    !.impulse_times = set.impulse_times,
                                    !.impulses_updated = TRUE],
              raised |-> NoError]

(* ZeroVibrationStreamGenerator._update_shaper_impulses: the decay factor  *)
(* is computed first (and may raise), then the family is matched; the      *)
(* lists and the flag are assigned only in a matching case.                *)
Stream_update_shaper_impulses(self) ==
    LET kk == DecayFactor(self.damping_ratio)
        T == resonant_period(self)
        set == CASE self.shaper_type = "ZV" -> ZV_case(kk.k, T)
                 [] self.shaper_type = "ZVD" -> ZVD_case(kk.k, T)
                 [] self.shaper_type = "ZVDD" -> ZVDD_case(kk.k, T)
    IN  IF kk.raised # NoError THEN [self |-> self, raised |-> kk.raised]
        ELSE IF self.shaper_type \notin ShaperType
        THEN [self |-> self, raised |-> "ValueError:Shaper type is not valid"]
        ELSE [self |-> [self EXCEPT !.impulses = set.impulses,
                                    !.impulse_times = set.impulse_times,
                                    !.impulses_updated = TRUE],
              raised |-> NoError]

(* Setter variants: one that forgets to clear the flag, one that clears it *)
(* before it validates.                                                    *)
resonant_frequency_setter_keeps_flag(self, value) ==
    IF QLe(value, Zero)
    THEN [self |-> self, raised |-> "ValueError:Invalid resonant frequency"]
    ELSE [self |-> [self EXCEPT !.resonant_frequency = value], raised |-> NoError]

damping_ratio_setter_clears_first(self, value) ==
    IF QLt(value, Zero)
    THEN [self |-> [self EXCEPT !.impulses_updated = FALSE],
          raised |-> "ValueError:Invalid damping ratio"]
    ELSE [self |-> [self EXCEPT !.damping_ratio = value,
                                !.impulses_updated = FALSE],
          raised |-> NoError]

(* ZeroVibrationStreamGenerator property setters: validate, assign the     *)
(* value, clear the flag.                                                  *)
resonant_frequency_setter(self, value) ==
    IF QLe(value, Zero)
    THEN [self |-> self, raised |-> "ValueError:Invalid resonant frequency"]
    ELSE [self |-> [self EXCEPT !.resonant_frequency = value,
                                !.impulses_updated = FALSE],
          raised |-> NoError]

damping_ratio_setter(self, value) ==
    IF QLt(value, Zero)
    THEN [self |-> self, raised |-> "ValueError:Invalid damping ratio"]
    ELSE [self |-> [self EXCEPT !.damping_ratio = value,
                                !.impulses_updated = FALSE],
          raised |-> NoError]

shaper_type_setter(self, value) ==
    [self |-> [self EXCEPT !.shaper_type = value, !.impulses_updated = FALSE],
     raised |-> NoError]

(* ZeroVibrationStreamGenerator.get_impulses / get_impulse_times:          *)
(* recompute when the flag is down, then return the memoized list.  r is   *)
(* the outcome of the (possibly skipped) recomputation.                    *)
Unchanged(self) == [self |-> self, raised |-> NoError]

return_impulses(r) ==
    IF r.raised # NoError THEN r
    ELSE [self |-> r.self, raised |-> NoError, value |-> r.self.impulses]

return_impulse_times(r) ==
    IF r.raised # NoError THEN r
    ELSE [self |-> r.self, raised |-> NoError, value |-> r.self.impulse_times]

get_impulses(self) ==
    return_impulses(IF self.impulses_updated = FALSE
                    THEN Stream_update_shaper_impulses(self)
                    ELSE Unchanged(self))

get_impulse_times(self) ==
    return_impulse_times(IF self.impulses_updated = FALSE
                         THEN Stream_update_shaper_impulses(self)
                         ELSE Unchanged(self))

(* ZeroVibrationStreamGenerator.__init__: the three property setters, the  *)
(* single no-shaping impulse, then the first update.  An exception in any  *)
(* step leaves no object.  Each step takes the outcome r of the step       *)
(* before it.                                                              *)
Failed(r) == [self |-> NoObject, raised |-> r.raised]

Stream_init_update(r) ==
    IF r.raised # NoError THEN Failed(r)
    ELSE [self |-> r.self, raised |-> NoError]

Stream_init_impulses(r) ==
    IF r.raised # NoError THEN Failed(r)
    ELSE Stream_init_update(Stream_update_shaper_impulses(
             [r.self EXCEPT !.impulse_times = <<Zero>>, !.impulses = <<One>>,
                            !.impulses_updated = FALSE]))

Stream_init_shaper_type(r, shaper_type) ==
    IF r.raised # NoError THEN Failed(r)
    ELSE Stream_init_impulses(shaper_type_setter(r.self, shaper_type))

Stream_init_damping_ratio(r, damping_ratio, shaper_type) ==
    IF r.raised # NoError THEN Failed(r)
    ELSE Stream_init_shaper_type(damping_ratio_setter(r.self, damping_ratio),
                                 shaper_type)

Stream_init(resonant_frequency, damping_ratio, shaper_type) ==
    Stream_init_damping_ratio(
        resonant_frequency_setter(
            [cls |-> "ZeroVibrationStreamGenerator",
             resonant_frequency |-> Zero, damping_ratio |-> Zero,
             shaper_type |-> "unset", impulses |-> <<>>,
             impulse_times |-> <<>>, impulses_updated |-> FALSE],
            resonant_frequency),
        damping_ratio, shaper_type)

---------------------------------------------------------------------------
(* ZeroVibrationTrajectoryGenerator: the same shaper with its own copy of  *)
(* the code, plus min_timestep.                                            *)

update_shaper_impulses(self) ==
    LET kk == DecayFactor(self.damping_ratio)
        T == resonant_period(self)
        set == CASE self.shaper_type = "ZV" -> ZV_case(kk.k, T)
                 [] self.shaper_type = "ZVD" -> ZVD_case(kk.k, T)
                 [] self.shaper_type = "ZVDD" -> ZVDD_case(kk.k, T)
    IN  IF kk.raised # NoError THEN [self |-> self, raised |-> kk.raised]
        ELSE IF self.shaper_type \notin ShaperType
        THEN [self |-> self, raised |-> "Exception:Shaper type is not valid"]
        ELSE [self |-> [self EXCEPT !.impulses = set.impulses,
                                    !.impulse_times = set.impulse_times,
                                    !.impulses_updated = TRUE],
              raised |-> NoError]

(* Setters of the trajectory generator: validate, clear the flag, assign.  *)
Trajectory_resonant_frequency_setter(self, value) ==
    IF QLe(value, Zero)
    THEN [self |-> self, raised |-> "ValueError:Invalid resonant frequency"]
    ELSE [self |-> [[self EXCEPT !.impulses_updated = FALSE]
                        EXCEPT !.resonant_frequency = value],
          raised |-> NoError]

Trajectory_damping_ratio_setter(self, value) ==
    IF QLt(value, Zero)
    THEN [self |-> self, raised |-> "ValueError:Invalid damping ratio"]
    ELSE [self |-> [[self EXCEPT !.impulses_updated = FALSE]
                        EXCEPT !.damping_ratio = value],
          raised |-> NoError]

Trajectory_shaper_type_setter(self, input) ==
    [self |-> [[self EXCEPT !.impulses_updated = FALSE]
                   EXCEPT !.shaper_type = input],
     raised |-> NoError]

min_timestep_setter(self, value) ==
    IF QLe(value, Zero)
    THEN [self |-> self, raised |-> "ValueError:Invalid minimum timestep"]
    ELSE [self |-> [self EXCEPT !.min_timestep = value], raised |-> NoError]

Stale(self) ==
    \/ self.impulses = None
    \/ self.impulse_times = None
    \/ self.impulses_updated = FALSE

Trajectory_get_impulses(self) ==
    return_impulses(IF Stale(self) THEN update_shaper_impulses(self)
                    ELSE Unchanged(self))

Trajectory_get_impulse_times(self) ==
    return_impulse_times(IF Stale(self) THEN update_shaper_impulses(self)
                         ELSE Unchanged(self))

(* ZeroVibrationTrajectoryGenerator.__init__ *)
Trajectory_init_impulses(r) ==
    IF r.raised # NoError THEN Failed(r)
    ELSE Stream_init_update(update_shaper_impulses(
             [r.self EXCEPT !.impulses = None, !.impulse_times = None,
                            !.impulses_updated = FALSE]))

Trajectory_init_min_timestep(r, min_timestep) ==
    IF r.raised # NoError THEN Failed(r)
    ELSE Trajectory_init_impulses(min_timestep_setter(r.self, min_timestep))

Trajectory_init_shaper_type(r, shaper_type, min_timestep) ==
    IF r.raised # NoError THEN Failed(r)
    ELSE Trajectory_init_min_timestep(
             Trajectory_shaper_type_setter(r.self, shaper_type), min_timestep)

Trajectory_init_damping_ratio(r, damping_ratio, shaper_type, min_timestep) ==
    IF r.raised # NoError THEN Failed(r)
    ELSE Trajectory_init_shaper_type(
             Trajectory_damping_ratio_setter(r.self, damping_ratio),
             shaper_type, min_timestep)

Trajectory_init(resonant_frequency, damping_ratio, shaper_type, min_timestep) ==
    Trajectory_init_damping_ratio(
        Trajectory_resonant_frequency_setter(
            [cls |-> "ZeroVibrationTrajectoryGenerator",
             resonant_frequency |-> Zero, damping_ratio |-> Zero,
             shaper_type |-> "unset", min_timestep |-> Zero,
             impulses |-> None, impulse_times |-> None,
             impulses_updated |-> FALSE],
            resonant_frequency),
        damping_ratio, shaper_type, min_timestep)

---------------------------------------------------------------------------
(* Trapezoidal profile generator.  A division by a zero int or float       *)
(* raises ZeroDivisionError; nothing else is checked.  The radicand of     *)
(* np.sqrt is never negative where it is reached: max_speed_distance <= 0  *)
(* gives |distance| <= max_speed_limit^2 * (1/(2a) + 1/(2d)).              *)

(* The branch "Max speed is not reached", given 1/(2a) + 1/(2d).           *)
triangular_profile(distance, acceleration, deceleration, divisor) ==
    IF divisor = Zero THEN [raised |-> "ZeroDivisionError"]
    ELSE LET direction == QSign(distance)
             max_speed == QSqrt(QDiv(QAbs(distance), divisor))
             acceleration_duration == QDiv(max_speed, acceleration)
             deceleration_duration == QDiv(max_speed, deceleration)
         IN  [raised |-> NoError,
              time |-> <<Zero, acceleration_duration,
                         QAdd(acceleration_duration, deceleration_duration)>>,
              acceleration |-> <<QMul(acceleration, direction),
                                 QMul(deceleration, QMul(QInt(-1), direction)),
                                 Zero>>]

(* The branch "Trapezoidal Motion", given max_speed_distance.              *)
trapezoidal_profile(distance, acceleration, deceleration, max_speed_limit, max_speed_distance) ==
    IF max_speed_limit = Zero THEN [raised |-> "ZeroDivisionError"]
    ELSE LET direction == QSign(distance)
             acceleration_endtime == QDiv(max_speed_limit, acceleration)
             max_speed_duration == QDiv(max_speed_distance, max_speed_limit)
             deceleration_duration == QDiv(max_speed_limit, deceleration)
         IN  [raised |-> NoError,
              time |-> <<Zero, acceleration_endtime,
                         QAdd(acceleration_endtime, max_speed_duration),
                         QAdd(QAdd(acceleration_endtime, max_speed_duration),
                              deceleration_duration)>>,
              acceleration |-> <<QMul(acceleration, direction), Zero,
                                 QMul(deceleration, QMul(QInt(-1), direction)),
                                 Zero>>]

(* abs(distance) - acceleration_distance - deceleration_distance           *)
max_speed_distance_of(distance, acceleration, deceleration, max_speed_limit) ==
    QSub(QSub(QAbs(distance),
              QDiv(QMul(max_speed_limit, max_speed_limit), QMul(QInt(2), acceleration))),
         QDiv(QMul(max_speed_limit, max_speed_limit), QMul(QInt(2), deceleration)))

(* 1 / (2 * acceleration) + 1 / (2 * deceleration)                         *)
ramp_divisor(acceleration, deceleration) ==
    QAdd(QDiv(One, QMul(QInt(2), acceleration)),
         QDiv(One, QMul(QInt(2), deceleration)))

(* The same with the comparison strict: a move that just reaches the speed *)
(* limit takes the trapezoidal branch.                                     *)
trapezoidal_motion_generator_strict(distance, acceleration, deceleration, max_speed_limit) ==
    IF acceleration = Zero \/ deceleration = Zero
    THEN [raised |-> "ZeroDivisionError"]
    ELSE IF QLt(max_speed_distance_of(distance, acceleration, deceleration,
                                      max_speed_limit), Zero)
    THEN triangular_profile(distance, acceleration, deceleration,
                            ramp_divisor(acceleration, deceleration))
    ELSE trapezoidal_profile(distance, acceleration, deceleration, max_speed_limit,
             max_speed_distance_of(distance, acceleration, deceleration,
                                   max_speed_limit))

(* trapezoidal_motion_generator of the stream generator file:              *)
(* triangular if max_speed_distance <= 0.                                  *)
trapezoidal_motion_generator(distance, acceleration, deceleration, max_speed_limit) ==
    IF acceleration = Zero \/ deceleration = Zero
    THEN [raised |-> "ZeroDivisionError"]
    ELSE IF QLe(max_speed_distance_of(distance, acceleration, deceleration,
                                      max_speed_limit), Zero)
    THEN triangular_profile(distance, acceleration, deceleration,
                            ramp_divisor(acceleration, deceleration))
    ELSE trapezoidal_profile(distance, acceleration, deceleration, max_speed_limit,
             max_speed_distance_of(distance, acceleration, deceleration,
                                   max_speed_limit))

(* ZeroVibrationTrajectoryGenerator.basic_trapezoidal_motion_generator:    *)
(* trapezoidal if max_speed_distance > 0.                                  *)
basic_trapezoidal_motion_generator(distance, acceleration, deceleration, max_speed_limit) ==
    IF acceleration = Zero \/ deceleration = Zero
    THEN [raised |-> "ZeroDivisionError"]
    ELSE IF QLt(Zero, max_speed_distance_of(distance, acceleration, deceleration,
                                            max_speed_limit))
    THEN trapezoidal_profile(distance, acceleration, deceleration, max_speed_limit,
             max_speed_distance_of(distance, acceleration, deceleration,
                                   max_speed_limit))
    ELSE triangular_profile(distance, acceleration, deceleration,
                            ramp_divisor(acceleration, deceleration))

(* The differences taken from the first acceleration: a[-1] = a[0].     *)
accel_changes_of_repeated(a) ==
    [i \in 1 .. Len(a) |-> IF i = 1 THEN Zero ELSE QSub(a[i], a[i - 1])]

(* np.diff(np.concatenate([[0], a])): a[i] - a[i-1], with a[-1] = 0.       *)
accel_changes_of(a) ==
    [i \in 1 .. Len(a) |-> IF i = 1 THEN QSub(a[1], Zero) ELSE QSub(a[i], a[i - 1])]

(* shaped_time.argsort(): the indices in non-decreasing order of time.     *)
(* No kind is passed, so the sort is numpy's default "quicksort", which    *)
(* promises no order among equal keys: its scalar path is an insertion     *)
(* sort below 17 elements and keeps them in their original order, its      *)
(* partitioning and vectorised paths do not.  The order a build leaves is  *)
(* tie_order: the original order kept, or the equal keys reversed.         *)
TieOrders == {"kept", "reversed"}

SameTime(a, b) == ~QLt(a, b) /\ ~QLt(b, a)

RECURSIVE InsertByTime(_, _, _)
InsertByTime(sorted, j, t) ==
    IF sorted = <<>> THEN <<j>>
    ELSE IF QLt(t[j], t[Head(sorted)])
            \/ (tie_order = "reversed" /\ SameTime(t[j], t[Head(sorted)]))
    THEN <<j>> \o sorted
    ELSE <<Head(sorted)>> \o InsertByTime(Tail(sorted), j, t)

RECURSIVE ArgsortUpTo(_, _)
ArgsortUpTo(t, n) ==
    IF n = 0 THEN <<>> ELSE InsertByTime(ArgsortUpTo(t, n - 1), n, t)

(* The indices as they are: no sorting. *)
argsort_none(t) == [j \in 1 .. Len(t) |-> j]

argsort(t) == ArgsortUpTo(t, Len(t))

(* np.cumsum *)
RECURSIVE CumsumFrom(_, _)
CumsumFrom(s, acc) ==
    IF s = <<>> THEN <<>>
    ELSE LET x == QAdd(acc, Head(s)) IN <<x>> \o CumsumFrom(Tail(s), x)

(* The running sums taken before each step instead of after it.           *)
cumsum_before(s) == <<Zero>> \o SubSeq(CumsumFrom(s, Zero), 1, Len(s) - 1)

cumsum(s) == CumsumFrom(s, Zero)

(* calculate_acceleration_convolution: for impulse n (from 0) and          *)
(* breakpoint i, slot n * num_rows + i holds the delayed time and the      *)
(* scaled step; the slots are sorted by time and the steps summed.         *)
(* impulse_times[n] is read for every n below len(impulses).               *)
calculate_acceleration_convolution(impulse_times, impulses, unshaped_time, unshaped_acceleration) ==
    IF Len(impulse_times) < Len(impulses)
    THEN [raised |-> "IndexError"]
    ELSE
    LET unshaped_accel_changes == accel_changes_of(unshaped_acceleration)
        num_rows == Len(unshaped_acceleration)
        size == Len(unshaped_acceleration) * Len(impulses)
        shaped_time0 ==
            [j \in 1 .. size |->
                QAdd(unshaped_time[((j - 1) % num_rows) + 1],
                     impulse_times[((j - 1) \div num_rows) + 1])]
        accel_changes0 ==
            [j \in 1 .. size |->
                QMul(unshaped_accel_changes[((j - 1) % num_rows) + 1],
                     impulses[((j - 1) \div num_rows) + 1])]
        sort_index == argsort(shaped_time0)
        shaped_time == [j \in 1 .. size |-> shaped_time0[sort_index[j]]]
        accel_changes == [j \in 1 .. size |-> accel_changes0[sort_index[j]]]
        shaped_acceleration == cumsum(accel_changes)
    IN  [raised |-> NoError, time |-> shaped_time,
         acceleration |-> shaped_acceleration]

(* create_stream_trajectory: one StreamSegment per interval n .. n + 1.    *)
RECURSIVE StreamSegmentsFrom(_, _, _, _, _)
StreamSegmentsFrom(trajectory_time, trajectory_acceleration, n, previous_position, previous_velocity) ==
    IF n > Len(trajectory_acceleration) - 1 THEN <<>>
    ELSE LET current_accel == trajectory_acceleration[n]
             dt == QSub(trajectory_time[n + 1], trajectory_time[n])
             current_velocity ==
                 QAdd(previous_velocity, QMul(trajectory_acceleration[n], dt))
             current_position ==
                 QAdd(previous_position,
                      QMul(QDiv(QAdd(current_velocity, previous_velocity), QInt(2)), dt))
         IN  <<[position |-> current_position,
                speed_limit |-> QMax(QAbs(current_velocity), QAbs(previous_velocity)),
                accel |-> QAbs(current_accel),
                duration |-> dt]>>
             \o StreamSegmentsFrom(trajectory_time, trajectory_acceleration, n + 1,
                                   current_position, current_velocity)

(* The integration started with a velocity of 1 instead of from rest.      *)
create_stream_trajectory_moving(trajectory_time, trajectory_acceleration) ==
    StreamSegmentsFrom(trajectory_time, trajectory_acceleration, 1, Zero, One)

create_stream_trajectory(trajectory_time, trajectory_acceleration) ==
    StreamSegmentsFrom(trajectory_time, trajectory_acceleration, 1, Zero, Zero)

(* The segments as integrated, without the final assignment.              *)
SetLastPosition_omitted(stream_segments, distance) == stream_segments

(* stream_segments[-1].position = distance *)
SetLastPosition(stream_segments, distance) ==
    [stream_segments EXCEPT ![Len(stream_segments)].position = distance]

(* ZeroVibrationStreamGenerator.shape_trapezoidal_motion, step by step:    *)
(* each step takes the values the steps before it produced.                *)
shape_finish(self, stream_segments, distance) ==
    IF stream_segments = <<>>
    THEN [self |-> self, raised |-> "IndexError"]
    ELSE [self |-> self, raised |-> NoError,
          value |-> SetLastPosition(stream_segments, distance)]

shape_integrate(self, shaped, distance) ==
    IF shaped.raised # NoError
    THEN [self |-> self, raised |-> shaped.raised]
    ELSE shape_finish(self,
             create_stream_trajectory(shaped.time, shaped.acceleration), distance)

shape_convolve(self, impulses, impulse_times, unshaped, distance) ==
    IF unshaped.raised # NoError
    THEN [self |-> self, raised |-> unshaped.raised]
    ELSE shape_integrate(self,
             calculate_acceleration_convolution(impulse_times, impulses,
                                                unshaped.time, unshaped.acceleration),
             distance)

shape_with_impulse_times(impulses, r2, distance, acceleration, deceleration, max_speed_limit) ==
    IF r2.raised # NoError THEN r2
    ELSE shape_convolve(r2.self, impulses, r2.value,
             trapezoidal_motion_generator(distance, acceleration, deceleration,
                                          max_speed_limit),
             distance)

shape_with_impulses(r1, distance, acceleration, deceleration, max_speed_limit) ==
    IF r1.raised # NoError THEN r1
    ELSE shape_with_impulse_times(r1.value, get_impulse_times(r1.self), distance,
                                  acceleration, deceleration, max_speed_limit)

shape_trapezoidal_motion(self, distance, acceleration, deceleration, max_speed_limit) ==
    shape_with_impulses(get_impulses(self), distance, acceleration, deceleration,
                        max_speed_limit)

---------------------------------------------------------------------------
(* Sampled-point mode: ZeroVibrationTrajectoryGenerator.                   *)

(* The loop of shape_trapezoidal_motion: a PvtPoint is appended when the   *)
(* time accumulated since the last one reaches min_pvt_timestep.           *)
RECURSIVE PvtPointsFrom(_, _, _, _, _, _, _)
PvtPointsFrom(trajectory_time, trajectory_acceleration, n, previous_position, previous_velocity, timestep0, min_pvt_timestep) ==
    IF n > Len(trajectory_acceleration) - 1 THEN <<>>
    ELSE LET dt == QSub(trajectory_time[n + 1], trajectory_time[n])
             current_velocity ==
                 QAdd(previous_velocity, QMul(trajectory_acceleration[n], dt))
             current_position ==
                 QAdd(previous_position,
                      QMul(QDiv(QAdd(current_velocity, previous_velocity), QInt(2)), dt))
             timestep == QAdd(timestep0, dt)
         IN  IF QLe(min_pvt_timestep, timestep)
             THEN <<[position |-> current_position, velocity |-> current_velocity,
                     time |-> timestep]>>
                  \o PvtPointsFrom(trajectory_time, trajectory_acceleration, n + 1,
                                   current_position, current_velocity, Zero,
                                   min_pvt_timestep)
             ELSE PvtPointsFrom(trajectory_time, trajectory_acceleration, n + 1,
                                current_position, current_velocity, timestep,
                                min_pvt_timestep)

(* pvt_trajectory[-1].position = distance; pvt_trajectory[-1].velocity = 0 *)
SetLastPoint(pvt_trajectory, distance) ==
    [pvt_trajectory EXCEPT ![Len(pvt_trajectory)].position = distance,
                           ![Len(pvt_trajectory)].velocity = Zero]

Trajectory_shape_finish(self, pvt_trajectory, distance) ==
    IF pvt_trajectory = <<>>
    THEN [self |-> self, raised |-> "IndexError"]
    ELSE [self |-> self, raised |-> NoError,
          value |-> SetLastPoint(pvt_trajectory, distance)]

Trajectory_shape_integrate(self, shaped, distance, min_pvt_timestep) ==
    IF shaped.raised # NoError
    THEN [self |-> self, raised |-> shaped.raised]
    ELSE Trajectory_shape_finish(self,
             PvtPointsFrom(shaped.time, shaped.acceleration, 1, Zero, Zero, Zero,
                           min_pvt_timestep),
             distance)

(* The convolution is written out in the method: the same steps as         *)
(* calculate_acceleration_convolution.                                     *)
Trajectory_shape_convolve(self, impulses, impulse_times, basic, distance, min_pvt_timestep) ==
    IF basic.raised # NoError
    THEN [self |-> self, raised |-> basic.raised]
    ELSE Trajectory_shape_integrate(self,
             calculate_acceleration_convolution(impulse_times, impulses,
                                                basic.time, basic.acceleration),
             distance, min_pvt_timestep)

Trajectory_shape_with_impulse_times(impulses, r2, distance, acceleration, deceleration, max_speed_limit, min_pvt_timestep) ==
    IF r2.raised # NoError THEN r2
    ELSE Trajectory_shape_convolve(r2.self, impulses, r2.value,
             basic_trapezoidal_motion_generator(distance, acceleration, deceleration,
                                                max_speed_limit),
             distance, min_pvt_timestep)

Trajectory_shape_with_impulses(r1, distance, acceleration, deceleration, max_speed_limit, min_pvt_timestep) ==
    IF r1.raised # NoError THEN r1
    ELSE Trajectory_shape_with_impulse_times(r1.value,
             Trajectory_get_impulse_times(r1.self), distance, acceleration,
             deceleration, max_speed_limit, min_pvt_timestep)

Trajectory_shape_trapezoidal_motion(self, distance, acceleration, deceleration, max_speed_limit, min_pvt_timestep) ==
    Trajectory_shape_with_impulses(Trajectory_get_impulses(self), distance,
                                   acceleration, deceleration, max_speed_limit,
                                   min_pvt_timestep)

---------------------------------------------------------------------------
(* Two axes: ZeroVibrationStreamGenerator2D.                               *)

(* x_shaper.get_impulse_amplitudes(): the memoized amplitude list, after   *)
(* the lazy recomputation, like get_impulses.                              *)
get_impulse_amplitudes(self) == get_impulses(self)

(* ZeroVibrationStreamGenerator(plant, shaper_type)                        *)
Stream_init_plant(plant, shaper_type) ==
    Stream_init(plant.resonant_frequency, plant.damping_ratio, shaper_type)

TwoD_init_pair(rx, ry) ==
    IF rx.raised # NoError THEN Failed(rx)
    ELSE IF ry.raised # NoError THEN Failed(ry)
    ELSE [self |-> [cls |-> "ZeroVibrationStreamGenerator2D",
                    x_shaper |-> rx.self, y_shaper |-> ry.self],
          raised |-> NoError]

TwoD_init(x_plant, y_plant, shaper_type) ==
    TwoD_init_pair(Stream_init_plant(x_plant, shaper_type),
                   Stream_init_plant(y_plant, shaper_type))

(* for t in other_times: if t is not among times, times.append(t) and      *)
(* amplitudes.append(0).  The lists are the ones the shaper holds.         *)
RECURSIVE AppendMissing(_, _, _)
AppendMissing(times, amplitudes, other_times) ==
    IF other_times = <<>> THEN [times |-> times, amplitudes |-> amplitudes]
    ELSE IF \E n \in 1 .. Len(times) : times[n] = Head(other_times)
    THEN AppendMissing(times, amplitudes, Tail(other_times))
    ELSE AppendMissing(Append(times, Head(other_times)), Append(amplitudes, Zero),
                       Tail(other_times))

(* The lists as appended, not sorted.                                      *)
SortedByTime_unsorted(list, times) == list

(* sorted(zip(times, amplitudes)), unzipped: the times of one list are     *)
(* distinct, so the pairs are ordered by time.                             *)
SortedByTime(list, times) == [n \in 1 .. Len(list) |-> list[argsort(times)[n]]]

(* The sorted amplitudes stored back into the shapers, the times left as   *)
(* appended.                                                               *)
merge_return_amplitudes_stored(self, x, y) ==
    [self |-> [self EXCEPT !.x_shaper.impulse_times = x.times,
                           !.x_shaper.impulses = SortedByTime(x.amplitudes, x.times),
                           !.y_shaper.impulse_times = y.times,
                           !.y_shaper.impulses = SortedByTime(y.amplitudes, y.times)],
     raised |-> NoError,
     value |-> [impulse_times |-> SortedByTime(x.times, x.times),
                x_impulses |-> SortedByTime(x.amplitudes, x.times),
                y_impulses |-> SortedByTime(y.amplitudes, y.times)]]

(* get_2D_impulses after the four reads: x and y are the two lists of each *)
(* shaper after the appends.  The appended lists stay in the shapers; the  *)
(* sorted copies are returned.                                             *)
merge_return(self, x, y) ==
    [self |-> [self EXCEPT !.x_shaper.impulse_times = x.times,
                           !.x_shaper.impulses = x.amplitudes,
                           !.y_shaper.impulse_times = y.times,
                           !.y_shaper.impulses = y.amplitudes],
     raised |-> NoError,
     value |-> [impulse_times |-> SortedByTime(x.times, x.times),
                x_impulses |-> SortedByTime(x.amplitudes, x.times),
                y_impulses |-> SortedByTime(y.amplitudes, y.times)]]

merge_y(self, x, y_impulse_times, y_impulses) ==
    merge_return(self, x, AppendMissing(y_impulse_times, y_impulses, x.times))

merge_x(self, x_impulse_times, x_impulses, y_impulse_times, y_impulses) ==
    merge_y(self, AppendMissing(x_impulse_times, x_impulses, y_impulse_times),
            y_impulse_times, y_impulses)

get_2D_y_times(self, rx, rxt, ry, ryt) ==
    IF ryt.raised # NoError
    THEN [self |-> [self EXCEPT !.x_shaper = rxt.self, !.y_shaper = ry.self],
          raised |-> ryt.raised]
    ELSE merge_x([self EXCEPT !.x_shaper = rxt.self, !.y_shaper = ryt.self],
                 rxt.value, rx.value, ryt.value, ry.value)

get_2D_y(self, rx, rxt, ry) ==
    IF ry.raised # NoError
    THEN [self |-> [self EXCEPT !.x_shaper = rxt.self], raised |-> ry.raised]
    ELSE get_2D_y_times(self, rx, rxt, ry, get_impulse_times(ry.self))

get_2D_x_times(self, rx, rxt) ==
    IF rxt.raised # NoError
    THEN [self |-> [self EXCEPT !.x_shaper = rx.self], raised |-> rxt.raised]
    ELSE get_2D_y(self, rx, rxt, get_impulse_amplitudes(self.y_shaper))

get_2D_x(self, rx) ==
    IF rx.raised # NoError THEN [self |-> self, raised |-> rx.raised]
    ELSE get_2D_x_times(self, rx, get_impulse_times(rx.self))

get_2D_impulses(self) == get_2D_x(self, get_impulse_amplitudes(self.x_shaper))

(* create_stream_trajectory_2d *)
RECURSIVE StreamSegments2DFrom(_, _, _, _, _, _, _, _, _)
StreamSegments2DFrom(trajectory_time, trajectory_x_acceleration, trajectory_y_acceleration, n, previous_x_position, previous_x_velocity, previous_y_position, previous_y_velocity, previous_velocity) ==
    IF n > Len(trajectory_time) - 1 THEN <<>>
    ELSE LET dt == QSub(trajectory_time[n + 1], trajectory_time[n])
             current_x_velocity ==
                 QAdd(previous_x_velocity, QMul(trajectory_x_acceleration[n], dt))
             current_x_position ==
                 QAdd(previous_x_position,
                      QMul(QDiv(QAdd(current_x_velocity, previous_x_velocity), QInt(2)),
                           dt))
             current_y_velocity ==
                 QAdd(previous_y_velocity, QMul(trajectory_y_acceleration[n], dt))
             current_y_position ==
                 QAdd(previous_y_position,
                      QMul(QDiv(QAdd(current_y_velocity, previous_y_velocity), QInt(2)),
                           dt))
             current_velocity ==
                 QSqrt(QAdd(QMul(current_x_velocity, current_x_velocity),
                            QMul(current_y_velocity, current_y_velocity)))
             current_accel ==
                 QSqrt(QAdd(QMul(trajectory_x_acceleration[n],
                                 trajectory_x_acceleration[n]),
                            QMul(trajectory_y_acceleration[n],
                                 trajectory_y_acceleration[n])))
         IN  <<[x_position |-> current_x_position,
                y_position |-> current_y_position,
                speed_limit |-> QMax(QAbs(current_velocity), QAbs(previous_velocity)),
                accel |-> QAbs(current_accel),
                duration |-> dt]>>
             \o StreamSegments2DFrom(trajectory_time, trajectory_x_acceleration,
                                     trajectory_y_acceleration, n + 1,
                                     current_x_position, current_x_velocity,
                                     current_y_position, current_y_velocity,
                                     current_velocity)

(* The segments of zero duration left out. *)
create_stream_trajectory_2d_dropping(x_trajectory, y_trajectory) ==
    SelectSeq(StreamSegments2DFrom(x_trajectory.time, x_trajectory.acceleration,
                                   y_trajectory.acceleration, 1, Zero, Zero, Zero,
                                   Zero, Zero),
              LAMBDA segment : segment.duration # Zero)

create_stream_trajectory_2d(x_trajectory, y_trajectory) ==
    StreamSegments2DFrom(x_trajectory.time, x_trajectory.acceleration,
                         y_trajectory.acceleration, 1, Zero, Zero, Zero, Zero, Zero)

(* stream_segments[-1].x_position = x_distance; ....y_position = y_distance *)
SetLastPosition2D(stream_segments, x_distance, y_distance) ==
    [stream_segments EXCEPT ![Len(stream_segments)].x_position = x_distance,
                            ![Len(stream_segments)].y_position = y_distance]

(* ZeroVibrationStreamGenerator2D.shape_trapezoidal_motion, step by step.  *)
TwoD_shape_finish(self, stream_segments, x_distance, y_distance) ==
    IF stream_segments = <<>>
    THEN [self |-> self, raised |-> "IndexError"]
    ELSE [self |-> self, raised |-> NoError,
          value |-> SetLastPosition2D(stream_segments, x_distance, y_distance)]

Scaled(accelerations, ratio) ==
    [n \in 1 .. Len(accelerations) |-> QMul(accelerations[n], ratio)]

TwoD_shape_convolve(self, impulses, unshaped, x_ratio, y_ratio, x_distance, y_distance) ==
    IF unshaped.raised # NoError
    THEN [self |-> self, raised |-> unshaped.raised]
    ELSE TwoD_shape_finish(self,
             create_stream_trajectory_2d(
                 calculate_acceleration_convolution(impulses.impulse_times,
                     impulses.x_impulses, unshaped.time,
                     Scaled(unshaped.acceleration, x_ratio)),
                 calculate_acceleration_convolution(impulses.impulse_times,
                     impulses.y_impulses, unshaped.time,
                     Scaled(unshaped.acceleration, y_ratio))),
             x_distance, y_distance)

(* The y ratio taken from the magnitude of y_distance. *)
TwoD_shape_split_magnitude(self, impulses, total_distance, x_distance, y_distance, acceleration, deceleration, max_speed_limit) ==
    IF total_distance = Zero
    THEN [self |-> self, raised |-> "ZeroDivisionError"]
    ELSE TwoD_shape_convolve(self, impulses,
             trapezoidal_motion_generator(total_distance, acceleration, deceleration,
                                          max_speed_limit),
             QDiv(x_distance, total_distance), QDiv(QAbs(y_distance), total_distance),
             x_distance, y_distance)

TwoD_shape_split(self, impulses, total_distance, x_distance, y_distance, acceleration, deceleration, max_speed_limit) ==
    IF total_distance = Zero
    THEN [self |-> self, raised |-> "ZeroDivisionError"]
    ELSE TwoD_shape_convolve(self, impulses,
             trapezoidal_motion_generator(total_distance, acceleration, deceleration,
                                          max_speed_limit),
             QDiv(x_distance, total_distance), QDiv(y_distance, total_distance),
             x_distance, y_distance)

TwoD_shape_with_impulses(r, x_distance, y_distance, acceleration, deceleration, max_speed_limit) ==
    IF r.raised # NoError THEN r
    ELSE TwoD_shape_split(r.self, r.value,
             QSqrt(QAdd(QMul(x_distance, x_distance), QMul(y_distance, y_distance))),
             x_distance, y_distance, acceleration, deceleration, max_speed_limit)

TwoD_shape_trapezoidal_motion(self, x_distance, y_distance, acceleration, deceleration, max_speed_limit) ==
    TwoD_shape_with_impulses(get_2D_impulses(self), x_distance, y_distance,
                             acceleration, deceleration, max_speed_limit)

---------------------------------------------------------------------------
(* Calls on the object under test. *)

IsStream == gen.cls = "ZeroVibrationStreamGenerator"
IsTrajectory == gen.cls = "ZeroVibrationTrajectoryGenerator"
Is2D == gen.cls = "ZeroVibrationStreamGenerator2D"

NoCall == [op |-> "none", args |-> <<>>, raised |-> NoError, value |-> None]

Call(op, args, r) ==
    /\ gen' = r.self
    /\ pre' = gen
    /\ ret' = [op |-> op, args |-> args, raised |-> r.raised,
               value |-> IF "value" \in DOMAIN r THEN r.value ELSE None]
    /\ UNCHANGED tie_order

Init ==
    /\ gen = NoObject
    /\ pre = NoObject
    /\ ret = NoCall
    /\ tie_order \in TieOrders

(* Values a caller may pass: the smallest ones and the largest of the      *)
(* range.                                                                  *)
MinTimesteps == {Zero, Q(1, 1000), One}
MinPvtTimesteps == {Q(1, 1000), One, QInt(100)}
Distances == {QInt(-MaxDistance), Zero, One}
Distances2D == {QInt(-1), Zero, QInt(MaxDistance)}
Accelerations == {Zero, One, QInt(MaxAcceleration)}
Decelerations == {One, QInt(MaxAcceleration)}
SpeedLimits == {One, QInt(MaxSpeed)}
SpeedLimits2D == {One}
Plants == {[resonant_frequency |-> One, damping_ratio |-> Zero],
           [resonant_frequency |-> QInt(MaxFrequency), damping_ratio |-> Zero],
           [resonant_frequency |-> QInt(MaxFrequency), damping_ratio |-> Q(1, 5)]}

(* ZeroVibrationStreamGenerator *)
NewStream ==
    \E f \in FrequencyValues, z \in DampingValues, st \in ShaperTypeValues :
        /\ gen = NoObject
        /\ Call("__init__", <<f, z, st>>, Stream_init(f, z, st))

SetResonantFrequency ==
    \E value \in FrequencyValues :
        /\ IsStream
        /\ Call("resonant_frequency", <<value>>, resonant_frequency_setter(gen, value))

SetDampingRatio ==
    \E value \in DampingValues :
        /\ IsStream
        /\ Call("damping_ratio", <<value>>, damping_ratio_setter(gen, value))

SetShaperType ==
    \E value \in ShaperTypeValues :
        /\ IsStream
        /\ Call("shaper_type", <<value>>, shaper_type_setter(gen, value))

GetImpulses ==
    /\ IsStream
    /\ Call("get_impulses", <<>>, get_impulses(gen))

GetImpulseTimes ==
    /\ IsStream
    /\ Call("get_impulse_times", <<>>, get_impulse_times(gen))

ShapeTrapezoidalMotion ==
    \E distance \in Distances, acceleration \in Accelerations,
       deceleration \in Decelerations, max_speed_limit \in SpeedLimits :
        /\ IsStream
        /\ Call("shape_trapezoidal_motion",
                <<distance, acceleration, deceleration, max_speed_limit>>,
                shape_trapezoidal_motion(gen, distance, acceleration, deceleration,
                                         max_speed_limit))

(* ZeroVibrationTrajectoryGenerator *)
NewTrajectory ==
    \E f \in FrequencyValues, z \in DampingValues, st \in ShaperTypeValues,
       m \in MinTimesteps :
        /\ gen = NoObject
        /\ Call("__init__", <<f, z, st, m>>, Trajectory_init(f, z, st, m))

TrajectorySetResonantFrequency ==
    \E value \in FrequencyValues :
        /\ IsTrajectory
        /\ Call("resonant_frequency", <<value>>,
                Trajectory_resonant_frequency_setter(gen, value))

TrajectorySetDampingRatio ==
    \E value \in DampingValues :
        /\ IsTrajectory
        /\ Call("damping_ratio", <<value>>,
                Trajectory_damping_ratio_setter(gen, value))

TrajectorySetShaperType ==
    \E value \in ShaperTypeValues :
        /\ IsTrajectory
        /\ Call("shaper_type", <<value>>, Trajectory_shaper_type_setter(gen, value))

TrajectorySetMinTimestep ==
    \E value \in MinTimesteps :
        /\ IsTrajectory
        /\ Call("min_timestep", <<value>>, min_timestep_setter(gen, value))

TrajectoryGetImpulses ==
    /\ IsTrajectory
    /\ Call("get_impulses", <<>>, Trajectory_get_impulses(gen))

TrajectoryGetImpulseTimes ==
    /\ IsTrajectory
    /\ Call("get_impulse_times", <<>>, Trajectory_get_impulse_times(gen))

TrajectoryShapeTrapezoidalMotion ==
    \E distance \in Distances, acceleration \in Accelerations,
       deceleration \in Decelerations, max_speed_limit \in SpeedLimits,
       min_pvt_timestep \in MinPvtTimesteps :
        /\ IsTrajectory
        /\ Call("shape_trapezoidal_motion",
                <<distance, acceleration, deceleration, max_speed_limit,
                  min_pvt_timestep>>,
                Trajectory_shape_trapezoidal_motion(gen, distance, acceleration,
                    deceleration, max_speed_limit, min_pvt_timestep))

(* ZeroVibrationStreamGenerator2D *)
New2D ==
    \E x_plant \in Plants, y_plant \in Plants, st \in ShaperTypeValues :
        /\ gen = NoObject
        /\ Call("__init__", <<x_plant, y_plant, st>>, TwoD_init(x_plant, y_plant, st))

Get2DImpulses ==
    /\ Is2D
    /\ Call("get_2D_impulses", <<>>, get_2D_impulses(gen))

Shape2D ==
    \E x_distance \in Distances2D, y_distance \in Distances2D,
       acceleration \in Decelerations, max_speed_limit \in SpeedLimits2D :
        /\ Is2D
        /\ Call("shape_trapezoidal_motion",
                <<x_distance, y_distance, acceleration, acceleration, max_speed_limit>>,
                TwoD_shape_trapezoidal_motion(gen, x_distance, y_distance,
                    acceleration, acceleration, max_speed_limit))

(* The caller takes the result; the next call starts from a clean slate.   *)
Idle == ret.op = "none"

Return ==
    /\ ~Idle
    /\ ret' = NoCall
    /\ pre' = NoObject
    /\ UNCHANGED <<gen, tie_order>>

---------------------------------------------------------------------------
(* Spec: the life of a single-axis shaper of either class: construction,   *)
(* mutation of its parameters, reads of its impulse set.                   *)

Next ==
    \/ NewStream
    \/ SetResonantFrequency
    \/ SetDampingRatio
    \/ SetShaperType
    \/ GetImpulses
    \/ GetImpulseTimes
    \/ NewTrajectory
    \/ TrajectorySetResonantFrequency
    \/ TrajectorySetDampingRatio
    \/ TrajectorySetShaperType
    \/ TrajectorySetMinTimestep
    \/ TrajectoryGetImpulses
    \/ TrajectoryGetImpulseTimes

Spec == Init /\ [][Next]_vars

(* SpecShape: segment mode, one axis and two.  A generator is built,       *)
(* reconfigured and asked for moves, one call at a time.                   *)
NextShape ==
    \/ Idle /\ NewStream
    \/ Idle /\ SetDampingRatio
    \/ Idle /\ SetShaperType
    \/ Idle /\ ShapeTrapezoidalMotion
    \/ Idle /\ New2D
    \/ Idle /\ Get2DImpulses
    \/ Idle /\ Shape2D
    \/ Return

SpecShape == Init /\ [][NextShape]_vars

(* SpecSampled: sampled-point mode. *)
NextSampled ==
    \/ Idle /\ NewTrajectory
    \/ Idle /\ TrajectorySetDampingRatio
    \/ Idle /\ TrajectorySetShaperType
    \/ Idle /\ TrajectorySetMinTimestep
    \/ Idle /\ TrajectoryShapeTrapezoidalMotion
    \/ Return

SpecSampled == Init /\ [][NextSampled]_vars

(* SpecProfile: the two profile generators as functions of their inputs.   *)
ProfileDistances == {QInt(n) : n \in -MaxDistance .. MaxDistance}
ProfileRates == {QInt(n) : n \in -1 .. MaxAcceleration}
ProfileSpeeds == {QInt(n) : n \in -1 .. MaxSpeed}

Profile(p) == [self |-> NoObject, raised |-> p.raised,
               value |-> IF p.raised = NoError
                         THEN [time |-> p.time, acceleration |-> p.acceleration]
                         ELSE None]

CallTrapezoidalMotionGenerator ==
    \E distance \in ProfileDistances, acceleration \in ProfileRates,
       deceleration \in ProfileRates, max_speed_limit \in ProfileSpeeds :
        Call("trapezoidal_motion_generator",
             <<distance, acceleration, deceleration, max_speed_limit>>,
             Profile(trapezoidal_motion_generator(distance, acceleration, deceleration,
                                                  max_speed_limit)))

CallBasicTrapezoidalMotionGenerator ==
    \E distance \in ProfileDistances, acceleration \in ProfileRates,
       deceleration \in ProfileRates, max_speed_limit \in ProfileSpeeds :
        Call("basic_trapezoidal_motion_generator",
             <<distance, acceleration, deceleration, max_speed_limit>>,
             Profile(basic_trapezoidal_motion_generator(distance, acceleration,
                                                        deceleration, max_speed_limit)))

NextProfile ==
    \/ Idle /\ CallTrapezoidalMotionGenerator
    \/ Idle /\ CallBasicTrapezoidalMotionGenerator
    \/ Return

SpecProfile == Init /\ [][NextProfile]_vars

(* SpecImpulses: the computation of the impulse set as a function of the   *)
(* parameters, over a range of damping ratios n/10 and so of decay         *)
(* factors.                                                                *)
ImpulseDampings == {Q(n, 10) : n \in 0 .. MaxDampingTenths}
ImpulseFrequencies == {QInt(n) : n \in 1 .. MaxFrequency}

(* A generator whose parameters were just set: the memo is invalid.        *)
StreamWith(resonant_frequency, damping_ratio, shaper_type) ==
    [cls |-> "ZeroVibrationStreamGenerator",
     resonant_frequency |-> resonant_frequency, damping_ratio |-> damping_ratio,
     shaper_type |-> shaper_type, impulses |-> <<One>>, impulse_times |-> <<Zero>>,
     impulses_updated |-> FALSE]

TrajectoryWith(resonant_frequency, damping_ratio, shaper_type) ==
    [cls |-> "ZeroVibrationTrajectoryGenerator",
     resonant_frequency |-> resonant_frequency, damping_ratio |-> damping_ratio,
     shaper_type |-> shaper_type, impulses |-> None, impulse_times |-> None,
     impulses_updated |-> FALSE, min_timestep |-> Q(1, 1000)]

Computed(r) ==
    [self |-> NoObject, raised |-> r.raised,
     value |-> IF r.raised = NoError
               THEN [impulses |-> r.self.impulses,
                     impulse_times |-> r.self.impulse_times]
               ELSE None]

StreamUpdateShaperImpulses ==
    \E f \in ImpulseFrequencies, z \in ImpulseDampings, st \in ShaperTypeValues :
        Call("_update_shaper_impulses", <<f, z, st>>,
             Computed(Stream_update_shaper_impulses(StreamWith(f, z, st))))

TrajectoryUpdateShaperImpulses ==
    \E f \in ImpulseFrequencies, z \in ImpulseDampings, st \in ShaperTypeValues :
        Call("update_shaper_impulses", <<f, z, st>>,
             Computed(update_shaper_impulses(TrajectoryWith(f, z, st))))

NextImpulses ==
    \/ Idle /\ StreamUpdateShaperImpulses
    \/ Idle /\ TrajectoryUpdateShaperImpulses
    \/ Return

SpecImpulses == Init /\ [][NextImpulses]_vars

(* SpecConvolution: calculate_acceleration_convolution as a function of    *)
(* an impulse set and an unshaped profile.  The impulse sets are the one a *)
(* new generator holds before its first computation (a single impulse of   *)
(* amplitude 1 at time 0) and the computed ones; the profiles are those of *)
(* trapezoidal_motion_generator.                                           *)
ImpulseSets ==
    {[impulses |-> StreamWith(One, Zero, "ZV").impulses,
      impulse_times |-> StreamWith(One, Zero, "ZV").impulse_times]}
    \cup {Computed(Stream_update_shaper_impulses(StreamWith(f, z, st))).value :
              f \in ImpulseFrequencies, z \in {Zero, Q(1, 5)}, st \in ShaperType}

UnshapedProfiles ==
    {Profile(trapezoidal_motion_generator(distance, acceleration, deceleration,
                                          max_speed_limit)).value :
        distance \in Distances, acceleration \in Decelerations,
        deceleration \in Decelerations, max_speed_limit \in SpeedLimits}

Convolved(c) ==
    [self |-> NoObject, raised |-> c.raised,
     value |-> IF c.raised = NoError
               THEN [time |-> c.time, acceleration |-> c.acceleration]
               ELSE None]

CallCalculateAccelerationConvolution ==
    \E i \in ImpulseSets, u \in UnshapedProfiles :
        Call("calculate_acceleration_convolution",
             <<i.impulse_times, i.impulses, u.time, u.acceleration>>,
             Convolved(calculate_acceleration_convolution(i.impulse_times, i.impulses,
                                                          u.time, u.acceleration)))

(* A second stage: the sequence just returned for a raw profile is given   *)
(* back as the input profile, with the single impulse or a pair.           *)
CallCalculateAccelerationConvolutionAgain ==
    \E i \in {s \in ImpulseSets : Len(s.impulses) <= 2} :
        /\ ret.op = "calculate_acceleration_convolution"
        /\ ret.raised = NoError
        /\ ret.args[3] \in {u.time : u \in UnshapedProfiles}
        /\ Call("calculate_acceleration_convolution",
                <<i.impulse_times, i.impulses, ret.value.time, ret.value.acceleration>>,
                Convolved(calculate_acceleration_convolution(i.impulse_times,
                              i.impulses, ret.value.time, ret.value.acceleration)))

NextConvolution ==
    \/ Idle /\ CallCalculateAccelerationConvolution
    \/ CallCalculateAccelerationConvolutionAgain
    \/ Return

SpecConvolution == Init /\ [][NextConvolution]_vars

---------------------------------------------------------------------------
(* The shaped axes: ShapedAxis, ShapedAxisStream and ShapedAxisStream2D    *)
(* drive a Zaber device with the segments of a generator.  The object      *)
(* holds what it refers to: the axis (or the member axes of a lockstep     *)
(* group) with its settings in native units, its position in mm and its    *)
(* homed flag, and the stream with the commands it received since it was   *)
(* last disabled, each command [cmd, args].                                *)

(* settings.convert_to_native_units(setting, value, unit) multiplies by    *)
(* the native units per unit of the axis, convert_from_native_units        *)
(* divides by it; a value in Units.NATIVE is left as it is.                *)
NativePerUnit(setting, unit) ==
    IF unit = "NATIVE" THEN One
    ELSE CASE setting = "pos" -> QInt(4)
           [] setting = "maxspeed" -> QInt(2)
           [] setting = "accel" -> QInt(2)

(* The cap of a segment sent as it is where it converts to 1 native unit   *)
(* or less.                                                                *)
StreamCommands_unclamped(stream_segments, start_position) ==
    [i \in 1 .. 3 * Len(stream_segments) |->
        LET segment == stream_segments[(i + 2) \div 3]
        IN  CASE i % 3 = 1 ->
                     [cmd |-> "set_max_tangential_acceleration",
                      args |-> <<segment.accel, "mm/s2">>]
              [] i % 3 = 2 ->
                     [cmd |-> "set_max_speed", args |-> <<segment.speed_limit, "mm/s">>]
              [] OTHER -> [cmd |-> "line_absolute", args |-> <<>>]]

(* for segment in stream_segments: the acceleration and the speed cap, as  *)
(* given if they convert to more than 1 native unit (on both axes of a     *)
(* pair, which share the device's conversion) and 1 native unit otherwise, *)
(* then the line to the segment's position from the start position.        *)
StreamCommands(stream_segments, start_position) ==
    [i \in 1 .. 3 * Len(stream_segments) |->
        LET segment == stream_segments[(i + 2) \div 3]
        IN  CASE i % 3 = 1 ->
                     IF QLt(One, QMul(segment.accel, NativePerUnit("accel", "mm/s2")))
                     THEN [cmd |-> "set_max_tangential_acceleration",
                           args |-> <<segment.accel, "mm/s2">>]
                     ELSE [cmd |-> "set_max_tangential_acceleration",
                           args |-> <<One, "NATIVE">>]
              [] i % 3 = 2 ->
                     IF QLt(One, QMul(segment.speed_limit, NativePerUnit("maxspeed", "mm/s")))
                     THEN [cmd |-> "set_max_speed",
                           args |-> <<segment.speed_limit, "mm/s">>]
                     ELSE [cmd |-> "set_max_speed", args |-> <<One, "NATIVE">>]
              [] OTHER ->
                     [cmd |-> "line_absolute",
                      args |-> IF "position" \in DOMAIN segment
                               THEN <<QAdd(segment.position, start_position[1])>>
                               ELSE <<QAdd(segment.x_position, start_position[1]),
                                      QAdd(segment.y_position, start_position[2])>>]]

(* The decel move that also stores the shaped speed as maxspeed.           *)
ShapedAxis_move_relative_decel_maxspeed(self, position, unit, acceleration, acceleration_unit, shaped) ==
    [self |-> [self EXCEPT
                  !.axis.settings.maxspeed =
                      QMul(shaped.max_speed, NativePerUnit("maxspeed", "mm/s")),
                  !.axis.position =
                      QAdd(@, QDiv(QMul(position, NativePerUnit("pos", unit)),
                                   NativePerUnit("pos", "mm")))],
     raised |-> NoError]

(* ShapedAxis._move_relative_decel.  shaped is what the ZeroVibrationShaper *)
(* returned for the move: a deceleration and a speed, in mm.  The          *)
(* deceleration is rounded to whole native units (round: halves to the     *)
(* even neighbour) and written to motion.decelonly if that differs; the    *)
(* axis then moves with the speed and acceleration as command arguments.   *)
ShapedAxis_move_relative_decel(self, position, unit, acceleration, acceleration_unit, shaped) ==
    LET native == QMul(shaped.deceleration, NativePerUnit("accel", "mm/s2"))
        floor == native[1] \div native[2]
        twice == 2 * (native[1] % native[2])
        deceleration_native ==
            IF twice > native[2] \/ (twice = native[2] /\ floor % 2 = 1)
            THEN QInt(floor + 1) ELSE QInt(floor)
    IN  [self |-> [self EXCEPT
                      !.axis.settings.decelonly =
                          IF @ # deceleration_native THEN deceleration_native ELSE @,
                      !.axis.position =
                          QAdd(@, QDiv(QMul(position, NativePerUnit("pos", unit)),
                                       NativePerUnit("pos", "mm")))],
         raised |-> NoError]

(* The tail every streamed move_relative shares once the move is shaped:   *)
(* nothing is sent if shaping raised; otherwise the stream is disabled,    *)
(* set up (setup: the class's own commands between disable and the loop),  *)
(* given the segments, uncorked and, if asked, waited for.  moved is the   *)
(* object with its axes at the end of the move.                            *)
StreamMove(self, moved, r, setup, start_position, wait_until_idle) ==
    IF r.raised # NoError
    THEN [self |-> [self EXCEPT !.shaper = r.self], raised |-> r.raised]
    ELSE [self |-> [moved EXCEPT
              !.shaper = r.self,
              !.stream = <<[cmd |-> "disable", args |-> <<>>]>>
                         \o setup
                         \o StreamCommands(r.value, start_position)
                         \o <<[cmd |-> "uncork", args |-> <<>>]>>
                         \o (IF wait_until_idle
                             THEN <<[cmd |-> "wait_until_idle", args |-> <<>>]>>
                             ELSE <<>>)],
          raised |-> NoError]

(* ShapedAxisStream.move_relative.  The axis is one axis or a lockstep     *)
(* group: a setting of a group is the minimum over its members, and the    *)
(* stream is set up on the group.  With acceleration 0 the ramps take the  *)
(* accel and motion.decelonly settings.                                    *)
ShapedAxisStream_move_relative(self, position, unit, wait_until_idle, acceleration, acceleration_unit) ==
    LET get(setting) ==
            LET values == {self.axes[n].settings[setting] : n \in 1 .. Len(self.axes)}
            IN  CHOOSE v \in values : \A w \in values : QLe(v, w)
        given == QMul(acceleration, NativePerUnit("accel", acceleration_unit))
        position_mm == QDiv(QMul(position, NativePerUnit("pos", unit)),
                            NativePerUnit("pos", "mm"))
    IN  StreamMove(self,
            [self EXCEPT !.axes = [n \in 1 .. Len(self.axes) |->
                            [self.axes[n] EXCEPT !.position = QAdd(@, position_mm)]]],
            shape_trapezoidal_motion(self.shaper, position_mm,
                QDiv(IF acceleration = Zero THEN get("accel") ELSE given,
                     NativePerUnit("accel", "mm/s2")),
                QDiv(IF acceleration = Zero THEN get("decelonly") ELSE given,
                     NativePerUnit("accel", "mm/s2")),
                QDiv(self.max_speed_limit, NativePerUnit("maxspeed", "mm/s"))),
            <<IF self.lockstep
              THEN [cmd |-> "setup_live_composite", args |-> <<"LOCKSTEP">>]
              ELSE [cmd |-> "setup_live", args |-> <<1>>],
              [cmd |-> "cork", args |-> <<>>]>>,
            <<self.axes[1].position>>, wait_until_idle)

(* ShapedAxisStream2D.move_relative.  The ramps are the smaller of the two *)
(* axes' values; the deceleration compares the X value in native units    *)
(* with the Y value in mm (line 263).  The stream is disabled and set up   *)
(* on the two axes, the segments are sent and the stream is uncorked.      *)
ShapedAxisStream2D_move_relative(self, x_position, y_position, unit, wait_until_idle, acceleration, acceleration_unit) ==
    LET get(axis, setting) ==
            IF axis.lockstep
            THEN LET values == {axis.axes[n].settings[setting] : n \in 1 .. Len(axis.axes)}
                 IN  CHOOSE v \in values : \A w \in values : QLe(v, w)
            ELSE axis.axes[1].settings[setting]
        min(a, b) == IF QLt(b, a) THEN b ELSE a
        given == QMul(acceleration, NativePerUnit("accel", acceleration_unit))
        x_position_mm == QDiv(QMul(x_position, NativePerUnit("pos", unit)),
                              NativePerUnit("pos", "mm"))
        y_position_mm == QDiv(QMul(y_position, NativePerUnit("pos", unit)),
                              NativePerUnit("pos", "mm"))
        moved(axis, by) == [axis EXCEPT !.axes = [n \in 1 .. Len(axis.axes) |->
                               [axis.axes[n] EXCEPT !.position = QAdd(@, by)]]]
    IN  StreamMove(self,
            [self EXCEPT !.x_axis = moved(self.x_axis, x_position_mm),
                         !.y_axis = moved(self.y_axis, y_position_mm)],
            TwoD_shape_trapezoidal_motion(self.shaper, x_position_mm, y_position_mm,
                min(QDiv(IF acceleration = Zero THEN get(self.x_axis, "accel") ELSE given,
                         NativePerUnit("accel", "mm/s2")),
                    QDiv(IF acceleration = Zero THEN get(self.y_axis, "accel") ELSE given,
                         NativePerUnit("accel", "mm/s2"))),
                min(IF acceleration = Zero THEN get(self.x_axis, "decelonly") ELSE given,
                    QDiv(IF acceleration = Zero THEN get(self.y_axis, "decelonly") ELSE given,
                         NativePerUnit("accel", "mm/s2"))),
                QDiv(self.max_speed_limit, NativePerUnit("maxspeed", "mm/s"))),
            <<[cmd |-> "setup_live_composite",
               args |-> <<IF self.x_axis.lockstep THEN "LOCKSTEP" ELSE "PHYSICAL",
                          IF self.y_axis.lockstep THEN "LOCKSTEP" ELSE "PHYSICAL">>]>>,
            <<self.x_axis.axes[1].position, self.y_axis.axes[1].position>>,
            wait_until_idle)

(* SpecDevice: a shaped axis of one of the three classes is built on a     *)
(* device and asked for moves, one call at a time.  The device has one     *)
(* axis per ShapedAxis (axis_count = 1), maxspeed 2 and accel 2 native     *)
(* units; a move that would leave the travel of MaxDistance mm either way  *)
(* is not requested.                                                       *)

(* ShapedAxis(zaber_axis, resonant_frequency, damping_ratio, shaper_config) *)
NewShapedAxis ==
    \E axis_number \in 1 .. 2, resonant_frequency \in {One},
       damping_ratio \in {Zero, Q(1, 5)}, shaper_mode \in {"DECEL", "STREAM"},
       shaper_type \in {"ZV", "ZVD"}, decelonly \in {QInt(2), QInt(4)} :
        LET r == IF shaper_mode = "DECEL"
                 THEN [self |-> [cls |-> "ZeroVibrationShaper"], raised |-> NoError]
                 ELSE Stream_init(resonant_frequency, damping_ratio, shaper_type)
        IN  /\ gen = NoObject
            /\ shaper_mode = "DECEL" => shaper_type = "ZV"
            /\ Call("__init__",
                    <<axis_number, resonant_frequency, damping_ratio, shaper_mode, shaper_type>>,
                    IF axis_number > 1
                    THEN [self |-> NoObject, raised |-> "TypeError"]
                    ELSE IF r.raised # NoError THEN Failed(r)
                    ELSE [self |-> [cls |-> "ShapedAxis",
                                    axis |-> [axis_number |-> axis_number,
                                              settings |-> [maxspeed |-> QInt(2),
                                                            accel |-> QInt(2),
                                                            decelonly |-> decelonly],
                                              position |-> Zero],
                                    shaper |-> r.self,
                                    stream |-> <<>>,
                                    original_deceleration |-> decelonly,
                                    max_speed_limit |-> QInt(2)],
                          raised |-> NoError])

(* ShapedAxis.move_relative: by the class of the shaper.  The decel shaper *)
(* returns some deceleration and speed for the move.  With a generator     *)
(* (_move_relative_stream) the move is shaped with the acceleration given, *)
(* or the axis' accel setting if it is 0, for both ramps, and streamed.    *)
ShapedAxisMoveRelative ==
    \E move \in {<<QInt(-MaxDistance), "mm">>, <<QInt(4), "NATIVE">>},
       wait_until_idle \in BOOLEAN,
       acceleration \in {<<Zero, "NATIVE">>, <<One, "mm/s2">>},
       shaped \in {[deceleration |-> Q(1, 2), max_speed |-> One],
                   [deceleration |-> Q(5, 4), max_speed |-> Q(1, 2)],
                   [deceleration |-> Q(7, 4), max_speed |-> One]} :
        /\ gen.cls = "ShapedAxis"
        /\ QLe(QAbs(QAdd(gen.axis.position,
                         QDiv(QMul(move[1], NativePerUnit("pos", move[2])),
                              NativePerUnit("pos", "mm")))),
               QInt(MaxDistance))
        /\ IF gen.shaper.cls = "ZeroVibrationShaper"
           THEN Call("move_relative",
                     <<move[1], move[2], wait_until_idle, acceleration[1], acceleration[2]>>,
                     ShapedAxis_move_relative_decel(gen, move[1], move[2],
                         acceleration[1], acceleration[2], shaped))
           ELSE /\ shaped.max_speed = One /\ shaped.deceleration = Q(1, 2)
                /\ Call("move_relative",
                        <<move[1], move[2], wait_until_idle, acceleration[1], acceleration[2]>>,
                        StreamMove(gen,
                            [gen EXCEPT !.axis.position =
                                QAdd(@, QDiv(QMul(move[1], NativePerUnit("pos", move[2])),
                                             NativePerUnit("pos", "mm")))],
                            shape_trapezoidal_motion(gen.shaper,
                                QDiv(QMul(move[1], NativePerUnit("pos", move[2])),
                                     NativePerUnit("pos", "mm")),
                                QDiv(IF acceleration[1] = Zero THEN gen.axis.settings.accel
                                     ELSE QMul(acceleration[1],
                                               NativePerUnit("accel", acceleration[2])),
                                     NativePerUnit("accel", "mm/s2")),
                                QDiv(IF acceleration[1] = Zero THEN gen.axis.settings.accel
                                     ELSE QMul(acceleration[1],
                                               NativePerUnit("accel", acceleration[2])),
                                     NativePerUnit("accel", "mm/s2")),
                                QDiv(gen.max_speed_limit, NativePerUnit("maxspeed", "mm/s"))),
                            <<[cmd |-> "setup_live", args |-> <<gen.axis.axis_number>>],
                              [cmd |-> "cork", args |-> <<>>]>>,
                            <<gen.axis.position>>, wait_until_idle))

(* ShapedAxis.reset_deceleration *)
ShapedAxisResetDeceleration ==
    /\ gen.cls = "ShapedAxis"
    /\ Call("reset_deceleration", <<>>,
            [self |-> [gen EXCEPT !.axis.settings.decelonly = gen.original_deceleration],
             raised |-> NoError])

(* ShapedAxisStream(zaber_axis, plant, shaper_type): on one axis or on a   *)
(* lockstep group of two; the speed limit is the maxspeed setting, the     *)
(* smallest of the group.                                                  *)
NewShapedAxisStream ==
    \E lockstep \in BOOLEAN,
       plant \in {[resonant_frequency |-> One, damping_ratio |-> Zero],
                  [resonant_frequency |-> QInt(MaxFrequency), damping_ratio |-> Q(1, 5)]},
       shaper_type \in {"ZV", "ZVD"}, decelonly \in {QInt(2), QInt(4)} :
        LET r == Stream_init_plant(plant, shaper_type)
            axis == [axis_number |-> 1,
                     settings |-> [maxspeed |-> QInt(2), accel |-> QInt(2),
                                   decelonly |-> decelonly],
                     position |-> Zero]
        IN  /\ gen = NoObject
            /\ Call("__init__", <<lockstep, plant, shaper_type>>,
                    IF r.raised # NoError THEN Failed(r)
                    ELSE [self |-> [cls |-> "ShapedAxisStream",
                                    lockstep |-> lockstep,
                                    axes |-> IF lockstep
                                             THEN <<axis, [axis EXCEPT
                                                      !.axis_number = 2,
                                                      !.settings.decelonly = QInt(4)]>>
                                             ELSE <<axis>>,
                                    shaper |-> r.self,
                                    stream |-> <<>>,
                                    max_speed_limit |-> QInt(2)],
                          raised |-> NoError])

ShapedAxisStreamMoveRelative ==
    \E move \in {<<QInt(-MaxDistance), "mm">>, <<QInt(4), "NATIVE">>},
       wait_until_idle \in BOOLEAN,
       acceleration \in {<<Zero, "NATIVE">>, <<One, "mm/s2">>} :
        /\ gen.cls = "ShapedAxisStream"
        /\ QLe(QAbs(QAdd(gen.axes[1].position,
                         QDiv(QMul(move[1], NativePerUnit("pos", move[2])),
                              NativePerUnit("pos", "mm")))),
               QInt(MaxDistance))
        /\ Call("move_relative",
                <<move[1], move[2], wait_until_idle, acceleration[1], acceleration[2]>>,
                ShapedAxisStream_move_relative(gen, move[1], move[2], wait_until_idle,
                    acceleration[1], acceleration[2]))

(* ShapedAxisStream2D(x_zaber_axis, y_zaber_axis, x_plant, y_plant,        *)
(* shaper_type): each axis one axis or a lockstep group of two, every      *)
(* member homed or not.                                                    *)
NewShapedAxisStream2D ==
    \E x_homed \in [1 .. 2 -> BOOLEAN] \cup [1 .. 1 -> BOOLEAN],
       y_homed \in [1 .. 2 -> BOOLEAN] \cup [1 .. 1 -> BOOLEAN],
       x_plant \in {[resonant_frequency |-> One, damping_ratio |-> Zero]},
       y_plant \in {[resonant_frequency |-> One, damping_ratio |-> Zero],
                    [resonant_frequency |-> QInt(MaxFrequency), damping_ratio |-> Q(1, 5)]},
       shaper_type \in {"ZV"} :
        LET r == TwoD_init(x_plant, y_plant, shaper_type)
            axes(homed) ==
                [lockstep |-> Len(homed) = 2,
                 axes |-> [n \in 1 .. Len(homed) |->
                              [settings |-> [maxspeed |-> QInt(2), accel |-> QInt(2),
                                             decelonly |-> QInt(4)],
                               position |-> Zero,
                               homed |-> homed[n]]]]
        IN  /\ gen = NoObject
            /\ Call("__init__", <<x_homed, y_homed, x_plant, y_plant, shaper_type>>,
                    IF r.raised # NoError THEN Failed(r)
                    ELSE [self |-> [cls |-> "ShapedAxisStream2D",
                                    x_axis |-> axes(x_homed),
                                    y_axis |-> axes(y_homed),
                                    shaper |-> r.self,
                                    stream |-> <<>>,
                                    max_speed_limit |-> QInt(2)],
                          raised |-> NoError])

(* The pair is moved once all its axes are homed, within 1 mm of where it  *)
(* started.                                                                *)
ShapedAxisStream2DMoveRelative ==
    \E move \in {<<QInt(-1), Zero, "mm">>, <<QInt(4), QInt(4), "NATIVE">>},
       wait_until_idle \in BOOLEAN,
       acceleration \in {<<Zero, "NATIVE">>, <<One, "mm/s2">>} :
        /\ gen.cls = "ShapedAxisStream2D"
        /\ \A n \in 1 .. Len(gen.x_axis.axes) : gen.x_axis.axes[n].homed
        /\ \A n \in 1 .. Len(gen.y_axis.axes) : gen.y_axis.axes[n].homed
        /\ QLe(QAbs(QAdd(gen.x_axis.axes[1].position,
                         QDiv(QMul(move[1], NativePerUnit("pos", move[3])),
                              NativePerUnit("pos", "mm")))),
               One)
        /\ QLe(QAbs(QAdd(gen.y_axis.axes[1].position,
                         QDiv(QMul(move[2], NativePerUnit("pos", move[3])),
                              NativePerUnit("pos", "mm")))),
               One)
        /\ Call("move_relative",
                <<move[1], move[2], move[3], wait_until_idle, acceleration[1],
                  acceleration[2]>>,
                ShapedAxisStream2D_move_relative(gen, move[1], move[2], move[3],
                    wait_until_idle, acceleration[1], acceleration[2]))

(* ShapedAxisStream2D.is_homed: the members of X, then those of Y; for a   *)
(* single Y axis line 132 asks self.x_axis, which has no is_homed if it is *)
(* a Lockstep.                                                             *)
ShapedAxisStream2DIsHomed ==
    /\ gen.cls = "ShapedAxisStream2D"
    /\ Call("is_homed", <<>>,
            IF \E n \in 1 .. Len(gen.x_axis.axes) : ~gen.x_axis.axes[n].homed
            THEN [self |-> gen, raised |-> NoError, value |-> FALSE]
            ELSE IF gen.y_axis.lockstep
            THEN [self |-> gen, raised |-> NoError,
                  value |-> \A n \in 1 .. Len(gen.y_axis.axes) : gen.y_axis.axes[n].homed]
            ELSE IF gen.x_axis.lockstep
            THEN [self |-> gen, raised |-> "AttributeError"]
            ELSE [self |-> gen, raised |-> NoError, value |-> gen.x_axis.axes[1].homed])

NextDevice ==
    \/ Idle /\ NewShapedAxis
    \/ Idle /\ ShapedAxisMoveRelative
    \/ Idle /\ ShapedAxisResetDeceleration
    \/ Idle /\ NewShapedAxisStream
    \/ Idle /\ ShapedAxisStreamMoveRelative
    \/ Idle /\ NewShapedAxisStream2D
    \/ Idle /\ ShapedAxisStream2DMoveRelative
    \/ Idle /\ ShapedAxisStream2DIsHomed
    \/ Return

SpecDevice == Init /\ [][NextDevice]_vars

---------------------------------------------------------------------------
(* Properties. *)

Last(s) == s[Len(s)]

(* A valid move: nonzero distance, positive acceleration, deceleration and *)
(* speed limit.                                                            *)
ValidRates(acceleration, deceleration, max_speed_limit) ==
    /\ QLt(Zero, acceleration)
    /\ QLt(Zero, deceleration)
    /\ QLt(Zero, max_speed_limit)

ValidMove(args) == args[1] # Zero /\ ValidRates(args[2], args[3], args[4])

ValidMove2D(args) ==
    /\ (args[1] # Zero \/ args[2] # Zero)
    /\ ValidRates(args[3], args[4], args[5])

Shaped == ret.op = "shape_trapezoidal_motion" /\ ret.raised = NoError

(* C1: in segment mode, for every valid move, the last segment returned by *)
(* ZeroVibrationStreamGenerator.shape_trapezoidal_motion has its position  *)
(* equal to the commanded distance, and the last segment returned by       *)
(* ZeroVibrationStreamGenerator2D.shape_trapezoidal_motion has x_position  *)
(* and y_position equal to the commanded x_distance and y_distance.        *)
C1_LastSegmentAtDistance ==
    /\ (Shaped /\ IsStream /\ ValidMove(ret.args))
           => Last(ret.value).position = ret.args[1]
    /\ (Shaped /\ Is2D /\ ValidMove2D(ret.args))
           => /\ Last(ret.value).x_position = ret.args[1]
              /\ Last(ret.value).y_position = ret.args[2]

(* A triangular move whose peak speed is not a rational number (distance   *)
(* 1, acceleration 2, deceleration 2: sqrt(2)) has been shaped, and its    *)
(* last segment is at the distance while an earlier one is not.            *)
C1_Witness ==
    /\ Shaped /\ IsStream /\ ValidMove(ret.args)
    /\ ret.args[1] = One /\ ret.args[2] = QInt(2) /\ ret.args[3] = QInt(2)
    /\ Last(ret.value).position = One
    /\ \E n \in 1 .. Len(ret.value) - 1 : ret.value[n].position # One

(* The impulse set of the generator can be computed: the damping ratio is  *)
(* below 1 and the family is one of the three.                             *)
Computable(self) ==
    /\ DecayFactor(self.damping_ratio).raised = NoError
    /\ self.shaper_type \in ShaperType

(* C2: in sampled-point mode, for every valid move and every positive      *)
(* minimum timestep, ZeroVibrationTrajectoryGenerator's                    *)
(* shape_trapezoidal_motion returns a non-empty sequence whose final point *)
(* has velocity 0 and position equal to the commanded distance.            *)
C2_SampledEndsAtRest ==
    (/\ ret.op = "shape_trapezoidal_motion"
     /\ IsTrajectory
     /\ Computable(pre)
     /\ ValidMove(ret.args)
     /\ QLt(Zero, ret.args[5]))
        => /\ ret.raised = NoError
           /\ ret.value # <<>>
           /\ Last(ret.value).velocity = Zero
           /\ Last(ret.value).position = ret.args[1]

ProfileCall ==
    ret.op \in {"trapezoidal_motion_generator", "basic_trapezoidal_motion_generator"}

(* C3: the trapezoidal profile generator fails, returning no profile,      *)
(* whenever acceleration <= 0, deceleration <= 0, max_speed_limit <= 0 or  *)
(* distance = 0.  Any exception counts as the InfeasibleMove failure.      *)
C3_InfeasibleMoveRejected ==
    (/\ ProfileCall
     /\ \/ QLe(ret.args[2], Zero)
        \/ QLe(ret.args[3], Zero)
        \/ QLe(ret.args[4], Zero)
        \/ ret.args[1] = Zero)
        => /\ ret.raised # NoError
           /\ ret.value = None

(* v*^2 = |distance| / (1/(2a) + 1/(2d)) *)
PeakSpeedSquared(distance, a, d) ==
    QDiv(QAbs(distance),
         QAdd(QDiv(One, QMul(QInt(2), a)), QDiv(One, QMul(QInt(2), d))))

Triangular(distance, a, d, v) ==
    LET peak == QSqrt(PeakSpeedSquared(distance, a, d))
    IN  [time |-> <<Zero, QDiv(peak, a), QAdd(QDiv(peak, a), QDiv(peak, d))>>,
         acceleration |-> <<QMul(a, QSign(distance)),
                            QNeg(QMul(d, QSign(distance))), Zero>>]

CruiseDuration(distance, a, d, v) ==
    QDiv(QSub(QSub(QAbs(distance), QDiv(QMul(v, v), QMul(QInt(2), a))),
              QDiv(QMul(v, v), QMul(QInt(2), d))),
         v)

IsTrapezoid(profile, distance, a, d, v) ==
    /\ Len(profile.time) = 4
    /\ profile.acceleration = <<QMul(a, QSign(distance)), Zero,
                                QNeg(QMul(d, QSign(distance))), Zero>>
    /\ QSub(profile.time[3], profile.time[2]) = CruiseDuration(distance, a, d, v)

OtherGenerator(args) ==
    IF ret.op = "trapezoidal_motion_generator"
    THEN Profile(basic_trapezoidal_motion_generator(args[1], args[2], args[3], args[4]))
    ELSE Profile(trapezoidal_motion_generator(args[1], args[2], args[3], args[4]))

(* C10: for positive acceleration a, deceleration d, speed limit v and     *)
(* nonzero distance, the profile generator returns the 3-breakpoint        *)
(* triangular profile [0, v*/a, v*/a + v*/d] with accelerations            *)
(* [+a dir, -d dir, 0] exactly when v* <= v, where                         *)
(* v*^2 = |distance| / (1/(2a) + 1/(2d)), and otherwise the 4-breakpoint   *)
(* trapezoidal profile with accelerations [+a dir, 0, -d dir, 0] whose     *)
(* cruise lasts (|distance| - v^2/(2a) - v^2/(2d)) / v; the segment-mode   *)
(* and the sampled-mode generator return the same profile for every input. *)
C10_ProfileShape ==
    ProfileCall =>
        /\ ValidMove(ret.args) =>
               /\ ret.raised = NoError
               /\ IF QLe(PeakSpeedSquared(ret.args[1], ret.args[2], ret.args[3]),
                         QMul(ret.args[4], ret.args[4]))
                  THEN ret.value = Triangular(ret.args[1], ret.args[2], ret.args[3],
                                              ret.args[4])
                  ELSE IsTrapezoid(ret.value, ret.args[1], ret.args[2], ret.args[3],
                                   ret.args[4])
        /\ OtherGenerator(ret.args).raised = ret.raised
        /\ OtherGenerator(ret.args).value = ret.value

(* The segment-mode generator was asked for a move that just reaches the   *)
(* speed limit (v* = v) and returned three breakpoints.                    *)
C10_Witness ==
    /\ ret.op = "trapezoidal_motion_generator"
    /\ ValidMove(ret.args)
    /\ PeakSpeedSquared(ret.args[1], ret.args[2], ret.args[3])
           = QMul(ret.args[4], ret.args[4])
    /\ ret.raised = NoError
    /\ Len(ret.value.time) = 3

---------------------------------------------------------------------------
(* Properties of the shaper's parameters and memo (Spec). *)

InvalidParameter ==
    {"ValueError:Invalid resonant frequency", "ValueError:Invalid damping ratio",
     "ValueError:Invalid minimum timestep"}

UnsupportedShaperFamily ==
    {"ValueError:Shaper type is not valid", "Exception:Shaper type is not valid"}

Read == ret.op \in {"get_impulses", "get_impulse_times"}

(* C4: setting resonant_frequency to a value <= 0 or damping_ratio to a    *)
(* value < 0, at construction or by a later mutation, raises an error;     *)
(* after a rejected mutation the stored parameter and the memo's validity  *)
(* flag are what they were before the call.                                *)
C4_InvalidParameterRejected ==
    /\ (ret.op = "__init__" /\ (QLe(ret.args[1], Zero) \/ QLt(ret.args[2], Zero)))
           => ret.raised \in InvalidParameter /\ gen = NoObject
    /\ (ret.op = "resonant_frequency" /\ QLe(ret.args[1], Zero))
           => /\ ret.raised \in InvalidParameter
              /\ gen.resonant_frequency = pre.resonant_frequency
              /\ gen.impulses_updated = pre.impulses_updated
    /\ (ret.op = "damping_ratio" /\ QLt(ret.args[1], Zero))
           => /\ ret.raised \in InvalidParameter
              /\ gen.damping_ratio = pre.damping_ratio
              /\ gen.impulses_updated = pre.impulses_updated

(* A negative damping ratio was refused while the memo was valid.          *)
C4_Witness ==
    /\ ret.op = "damping_ratio"
    /\ QLt(ret.args[1], Zero)
    /\ ret.raised \in InvalidParameter
    /\ pre.impulses_updated = TRUE
    /\ gen.impulses_updated = TRUE

(* C5, as claimed: a family other than ZV, ZVD or ZVDD fails at the point  *)
(* it is supplied, whether to the constructor or in an assignment to       *)
(* shaper_type.                                                            *)
C5_RejectedWhereSupplied ==
    /\ (ret.op = "__init__" /\ ret.args[3] \notin ShaperType) => ret.raised # NoError
    /\ (ret.op = "shaper_type" /\ ret.args[1] \notin ShaperType)
           => ret.raised # NoError

(* C5, amended: a family other than ZV, ZVD or ZVDD makes construction     *)
(* fail (with the unsupported-family error when that is the only thing     *)
(* wrong); an assignment to shaper_type stores any value without error,    *)
(* and every read of the impulse set fails while such a value is stored    *)
(* (with the unsupported-family error when the damping ratio is below 1),  *)
(* so no impulse set is returned for it.                                   *)
C5_RejectedWhereDetected ==
    /\ (ret.op = "__init__" /\ ret.args[3] \notin ShaperType)
           => /\ ret.raised # NoError
              /\ gen = NoObject
              /\ ret.raised \notin InvalidParameter
                     => \/ ret.raised \in UnsupportedShaperFamily
                        \/ DecayFactor(ret.args[2]).raised # NoError
    /\ ret.op = "shaper_type"
           => ret.raised = NoError /\ gen.shaper_type = ret.args[1]
    /\ (Read /\ pre.shaper_type \notin ShaperType)
           => /\ ret.raised # NoError
              /\ ret.value = None
              /\ DecayFactor(pre.damping_ratio).raised = NoError
                     => ret.raised \in UnsupportedShaperFamily

(* An unsupported family was assigned over a valid memo, and the read that *)
(* followed failed.                                                        *)
C5_Witness ==
    /\ Read
    /\ pre.shaper_type \notin ShaperType
    /\ pre.impulses # None
    /\ ret.raised \in UnsupportedShaperFamily

(* The impulse set of the parameters the generator holds.                  *)
CurrentImpulseSet(self) ==
    IF ~Computable(self) THEN [impulses |-> None, impulse_times |-> None]
    ELSE CASE self.shaper_type = "ZV" ->
                  ZV_case(DecayFactor(self.damping_ratio).k, resonant_period(self))
           [] self.shaper_type = "ZVD" ->
                  ZVD_case(DecayFactor(self.damping_ratio).k, resonant_period(self))
           [] self.shaper_type = "ZVDD" ->
                  ZVDD_case(DecayFactor(self.damping_ratio).k, resonant_period(self))

(* C7: after any sequence of accepted or rejected mutations of             *)
(* resonant_frequency, damping_ratio and shaper_type and of reads, a value *)
(* returned by get_impulses or get_impulse_times is the impulse set of the *)
(* parameters current at the read, never a stale one; a read whose         *)
(* recomputation failed returns nothing and leaves the memo invalid.       *)
C7_NoStaleImpulses ==
    /\ (ret.op = "get_impulses" /\ ret.raised = NoError)
           => ret.value = CurrentImpulseSet(gen).impulses /\ ret.value # None
    /\ (ret.op = "get_impulse_times" /\ ret.raised = NoError)
           => ret.value = CurrentImpulseSet(gen).impulse_times /\ ret.value # None
    /\ (Read /\ ret.raised # NoError)
           => ret.value = None /\ gen.impulses_updated = FALSE

(* A read found the memo invalid and returned a set other than the one     *)
(* memoized before.                                                        *)
C7_Witness ==
    /\ ret.op = "get_impulses"
    /\ ret.raised = NoError
    /\ pre.impulses_updated = FALSE
    /\ pre.impulses # ret.value
    /\ ret.value = CurrentImpulseSet(gen).impulses

ImpulseCount(shaper_type) ==
    CASE shaper_type = "ZV" -> 2 [] shaper_type = "ZVD" -> 3 [] shaper_type = "ZVDD" -> 4

(* C9: the impulse set has 2, 3 and 4 impulses for ZV, ZVD and ZVDD, at    *)
(* the times 0, T/2, T, 3T/2 (T = 1/resonant_frequency) cut to that count; *)
(* the amplitude and time lists always have the same length, the times     *)
(* never decrease and the first time is 0.                                 *)
C9_ImpulseTimes ==
    /\ (Read /\ ret.raised = NoError)
           => /\ Len(gen.impulses) = ImpulseCount(gen.shaper_type)
              /\ gen.impulse_times =
                     SubSeq(<<Zero, QDiv(resonant_period(gen), QInt(2)),
                              resonant_period(gen),
                              QDiv(QMul(QInt(3), resonant_period(gen)), QInt(2))>>,
                            1, ImpulseCount(gen.shaper_type))
    /\ gen # NoObject
           => /\ Len(gen.impulses) = Len(gen.impulse_times)
              /\ gen.impulse_times[1] = Zero
              /\ \A n \in 1 .. Len(gen.impulse_times) - 1 :
                     QLe(gen.impulse_times[n], gen.impulse_times[n + 1])

(* The four impulse times of a ZVDD shaper were read.                      *)
C9_Witness ==
    /\ ret.op = "get_impulse_times"
    /\ ret.raised = NoError
    /\ gen.shaper_type = "ZVDD"
    /\ Len(ret.value) = 4
    /\ ret.value[4] = QDiv(QMul(QInt(3), resonant_period(gen)), QInt(2))

---------------------------------------------------------------------------
(* Properties of the computed impulse set (SpecImpulses). *)

Updated ==
    /\ ret.op \in {"_update_shaper_impulses", "update_shaper_impulses"}
    /\ ret.raised = NoError

(* (1 + k)^n *)
RECURSIVE OnePlusPower(_, _)
OnePlusPower(k, n) ==
    IF n = 0 THEN One ELSE QMul(QAdd(One, k), OnePlusPower(k, n - 1))

Binomial(k, shaper_type) ==
    CASE shaper_type = "ZV" ->
             <<QDiv(One, OnePlusPower(k, 1)), QDiv(k, OnePlusPower(k, 1))>>
      [] shaper_type = "ZVD" ->
             <<QDiv(One, OnePlusPower(k, 2)), QDiv(QMul(QInt(2), k), OnePlusPower(k, 2)),
               QDiv(QMul(k, k), OnePlusPower(k, 2))>>
      [] shaper_type = "ZVDD" ->
             <<QDiv(One, OnePlusPower(k, 3)), QDiv(QMul(QInt(3), k), OnePlusPower(k, 3)),
               QDiv(QMul(QInt(3), QMul(k, k)), OnePlusPower(k, 3)),
               QDiv(QMul(k, QMul(k, k)), OnePlusPower(k, 3))>>

(* C8: for each family ZV, ZVD, ZVDD and every decay factor k, the impulse *)
(* amplitudes computed are {1, k}/(1+k), {1, 2k, k^2}/(1+k)^2 and          *)
(* {1, 3k, 3k^2, k^3}/(1+k)^3, and they sum to 1.                          *)
C8_BinomialAmplitudes ==
    Updated =>
        /\ ret.value.impulses = Binomial(DecayFactor(ret.args[2]).k, ret.args[3])
        /\ QSum(ret.value.impulses) = One

(* The four amplitudes of a ZVDD shaper with a decay factor below 1 were   *)
(* computed.                                                               *)
C8_Witness ==
    /\ Updated
    /\ ret.args[3] = "ZVDD"
    /\ QLt(DecayFactor(ret.args[2]).k, One)
    /\ Len(ret.value.impulses) = 4
    /\ QLt(ret.value.impulses[4], ret.value.impulses[1])

---------------------------------------------------------------------------
(* Properties of the two-axis composer (SpecShape). *)

(* C6: ZeroVibrationStreamGenerator2D.shape_trapezoidal_motion called with *)
(* x_distance = 0 and y_distance = 0 fails, produces no segments, and      *)
(* leaves both axis shapers as they were before the call.  Any exception   *)
(* counts as the DegenerateMove failure.                                   *)
C6_DegenerateMoveRejected ==
    (/\ ret.op = "shape_trapezoidal_motion"
     /\ Is2D
     /\ ret.args[1] = Zero
     /\ ret.args[2] = Zero)
        => /\ ret.raised # NoError
           /\ ret.value = None
           /\ gen.x_shaper = pre.x_shaper
           /\ gen.y_shaper = pre.y_shaper


---------------------------------------------------------------------------
(* Properties of the shaped breakpoint sequence. *)

ConvolutionReturned ==
    ret.op = "calculate_acceleration_convolution" /\ ret.raised = NoError

C12_PositiveDurations ==
    (Shaped /\ (IF Is2D THEN ValidMove2D(ret.args) ELSE ValidMove(ret.args))) =>
        \A n \in 1 .. Len(ret.value) : QLt(Zero, ret.value[n].duration)

(* C13: for a nonzero distance and positive acceleration, deceleration and *)
(* max_speed_limit, every StreamSegment returned by the single-axis        *)
(* shape_trapezoidal_motion has speed_limit <= max_speed_limit, whatever   *)
(* the shaper family.                                                      *)
C13_SpeedLimitRespected ==
    (Shaped /\ IsStream /\ ValidMove(ret.args)) =>
        \A n \in 1 .. Len(ret.value) : QLe(ret.value[n].speed_limit, ret.args[4])

(* A shaped move of each kind that reaches the limit: a cruise at          *)
(* max_speed_limit, under three or more impulses.                          *)
C13_Witness ==
    /\ Shaped /\ IsStream /\ ValidMove(ret.args)
    /\ Len(pre.impulses) >= 3
    /\ \E n \in 1 .. Len(ret.value) : ret.value[n].speed_limit = ret.args[4]
    /\ \E n \in 1 .. Len(ret.value) : QLt(ret.value[n].speed_limit, ret.args[4])

(* The state reached from rest by v_next = v_prev + a_n * dt and           *)
(* p_next = p_prev + (v_next + v_prev) / 2 * dt over the intervals of a    *)
(* breakpoint sequence.                                                    *)
RECURSIVE IntegratedFrom(_, _, _, _, _)
IntegratedFrom(time, acceleration, n, v_prev, p_prev) ==
    IF n > Len(time) - 1 THEN [velocity |-> v_prev, position |-> p_prev]
    ELSE LET dt == QSub(time[n + 1], time[n])
             v_next == QAdd(v_prev, QMul(acceleration[n], dt))
         IN  IntegratedFrom(time, acceleration, n + 1, v_next,
                 QAdd(p_prev, QMul(QDiv(QAdd(v_next, v_prev), QInt(2)), dt)))

FinalState(sequence) == IntegratedFrom(sequence.time, sequence.acceleration, 1, Zero, Zero)

UnshapedOf(args) == trapezoidal_motion_generator(args[1], args[2], args[3], args[4])

ShapedOf(args) ==
    calculate_acceleration_convolution(gen.impulse_times, gen.impulses,
                                       UnshapedOf(args).time,
                                       UnshapedOf(args).acceleration)

Again ==
    IF Is2D
    THEN TwoD_shape_trapezoidal_motion(gen, ret.args[1], ret.args[2], ret.args[3],
                                       ret.args[4], ret.args[5])
    ELSE shape_trapezoidal_motion(gen, ret.args[1], ret.args[2], ret.args[3],
                                  ret.args[4])

(* C15: shape_trapezoidal_motion, on one axis or two, called a second time *)
(* on the same generator with the same arguments, ends as the first call   *)
(* did: the same segments, or the same exception, whatever was called      *)
(* before the first call.                                                  *)
C15_SecondCallSameResult ==
    ret.op = "shape_trapezoidal_motion" =>
        LET again == Again
        IN  /\ again.raised = ret.raised
            /\ ret.raised = NoError => again.value = ret.value

(* A first call that changed the generator (on one axis it recomputed the  *)
(* impulses, on two it extended the shapers' lists) and a second call that *)
(* returns the same segments.                                              *)
C15_Witness ==
    /\ Shaped
    /\ Again.raised = NoError
    /\ Again.value = ret.value
    /\ Len(ret.value) > 3
    /\ IF Is2D THEN Len(gen.x_shaper.impulses) > Len(pre.x_shaper.impulses)
               ELSE pre.impulses_updated = FALSE /\ gen.impulses # pre.impulses

(* Times in non-decreasing order. *)
Sorted(time) == \A n \in 1 .. Len(time) - 1 : QLe(time[n], time[n + 1])

(* C16: given the single impulse of amplitude 1 at time 0 and a profile    *)
(* whose times are sorted, calculate_acceleration_convolution returns the  *)
(* time list and the acceleration list it was given.                       *)
C16_SingleImpulseIdentity ==
    (ConvolutionReturned /\ ret.args[1] = <<Zero>> /\ ret.args[2] = <<One>>
        /\ Sorted(ret.args[3])) =>
        /\ ret.value.time = ret.args[3]
        /\ ret.value.acceleration = ret.args[4]

SamePlants ==
    /\ gen.x_shaper.resonant_frequency = gen.y_shaper.resonant_frequency
    /\ gen.x_shaper.damping_ratio = gen.y_shaper.damping_ratio
    /\ gen.x_shaper.shaper_type = gen.y_shaper.shaper_type

(* C17: a 2D move with x_distance = y_distance, on a generator whose two   *)
(* axes have the same plant parameters and shaper family, returns segments *)
(* with x_position = y_position throughout.                                *)
C17_DiagonalSymmetry ==
    (Shaped /\ Is2D /\ SamePlants /\ ret.args[1] = ret.args[2]) =>
        \A n \in 1 .. Len(ret.value) :
            ret.value[n].x_position = ret.value[n].y_position

(* A diagonal move of a damped pair of axes, under way and at its end.     *)
C17_Witness ==
    /\ Shaped /\ Is2D /\ SamePlants /\ ret.args[1] = ret.args[2]
    /\ gen.x_shaper.damping_ratio # Zero
    /\ Len(ret.value) > 3
    /\ ret.value[1].x_position # Zero
    /\ \A n \in 1 .. Len(ret.value) :
           ret.value[n].x_position = ret.value[n].y_position
    /\ Last(ret.value).y_position = ret.args[2]

(* The shaped step events of the move just returned, per axis: one more    *)
(* than its segments.                                                      *)
Events == Len(ret.value) + 1

(* The impulse times the two axes of a 2D generator hold between them.     *)
MergedTimes ==
    {gen.x_shaper.impulse_times[n] : n \in 1 .. Len(gen.x_shaper.impulse_times)}
    \cup {gen.y_shaper.impulse_times[n] : n \in 1 .. Len(gen.y_shaper.impulse_times)}

(* C18 as stated: every move, on one axis or two, produces at most 16      *)
(* shaped step events per axis, also when the two axes of a 2D move have   *)
(* different resonant frequencies and their impulse times were merged.     *)
C18_AtMostSixteenEvents == Shaped => Events <= 16

(* C18, amended: a move on one axis produces at most 16 events (3 or 4     *)
(* breakpoints times at most 4 impulses); a 2D move produces, per axis, 3  *)
(* or 4 breakpoints times the number of distinct impulse times of the two  *)
(* axes together, which is at most 4 + 4 - 1 = 7, so at most 28 events.    *)
C18_EventsPerAxis ==
    Shaped =>
        IF Is2D
        THEN /\ Events \in {3 * Cardinality(MergedTimes), 4 * Cardinality(MergedTimes)}
             /\ Cardinality(MergedTimes) <= 7
        ELSE /\ Events \in {3 * Len(gen.impulses), 4 * Len(gen.impulses)}
             /\ Len(gen.impulses) <= 4

(* Two ZVDD axes of different resonant frequencies: six merged impulse     *)
(* times, 24 events on a trapezoidal move.                                 *)
C18_Witness ==
    /\ Shaped /\ Is2D
    /\ gen.x_shaper.resonant_frequency # gen.y_shaper.resonant_frequency
    /\ Cardinality(MergedTimes) = 6
    /\ Events = 24

(* The events the claim enumerates: for impulse k and breakpoint i the     *)
(* time time[i] + t_k with the step (a[i] - a[i-1]) * c_k, a[-1] = 0.      *)
ClaimedEvents ==
    [j \in 1 .. Len(ret.args[4]) * Len(ret.args[2]) |->
        LET i == ((j - 1) % Len(ret.args[4])) + 1
            k == ((j - 1) \div Len(ret.args[4])) + 1
        IN  <<QAdd(ret.args[3][i], ret.args[1][k]),
              QMul(QSub(ret.args[4][i], IF i = 1 THEN Zero ELSE ret.args[4][i - 1]),
                   ret.args[2][k])>>]

(* The events returned: each time with the step that takes the running sum *)
(* from the acceleration before it to the acceleration at it.              *)
ReturnedEvents ==
    [j \in 1 .. Len(ret.value.time) |->
        <<ret.value.time[j],
          QSub(ret.value.acceleration[j],
               IF j = 1 THEN Zero ELSE ret.value.acceleration[j - 1])>>]

Occurrences(events, e) == Cardinality({j \in 1 .. Len(events) : events[j] = e})

SameMultiset(s, t) ==
    /\ Len(s) = Len(t)
    /\ \A j \in 1 .. Len(s) : Occurrences(s, s[j]) = Occurrences(t, s[j])

(* C19: calculate_acceleration_convolution returns len(breakpoints) *      *)
(* len(impulses) events: the multiset of time[i] + t_k with the step       *)
(* (a[i] - a[i-1]) * c_k, in non-decreasing order of time, the             *)
(* acceleration at each position being the sum of the steps up to and      *)
(* including it; segment mode makes one segment less than there are events.*)
C19_EventsOfConvolution ==
    ConvolutionReturned =>
        /\ Len(ret.value.time) = Len(ret.args[4]) * Len(ret.args[2])
        /\ Len(ret.value.acceleration) = Len(ret.value.time)
        /\ Sorted(ret.value.time)
        /\ SameMultiset(ClaimedEvents, ReturnedEvents)
        /\ Len(create_stream_trajectory(ret.value.time, ret.value.acceleration))
               = Len(ret.args[4]) * Len(ret.args[2]) - 1

(* Four breakpoints under four impulses with an impulse time on a          *)
(* breakpoint: 16 events, two of them at one time, 15 segments.            *)
C19_Witness ==
    /\ ConvolutionReturned
    /\ Len(ret.args[2]) = 4 /\ Len(ret.args[4]) = 4
    /\ Len(ret.value.time) = 16
    /\ \E j \in 1 .. 15 : ret.value.time[j] = ret.value.time[j + 1]
    /\ SameMultiset(ClaimedEvents, ReturnedEvents)
    /\ Len(create_stream_trajectory(ret.value.time, ret.value.acceleration)) = 15

(* The events in non-decreasing order of time, those of equal time in the  *)
(* order they had: lower impulse index first, then lower breakpoint index. *)
RECURSIVE InsertedAfterEqual(_, _)
InsertedAfterEqual(sorted, e) ==
    IF sorted = <<>> THEN <<e>>
    ELSE IF QLt(e[1], Head(sorted)[1]) THEN <<e>> \o sorted
    ELSE <<Head(sorted)>> \o InsertedAfterEqual(Tail(sorted), e)

RECURSIVE StablySorted(_, _)
StablySorted(events, n) ==
    IF n = 0 THEN <<>>
    ELSE InsertedAfterEqual(StablySorted(events, n - 1), events[n])

(* C20: the sort of the shaped step events by time is stable: events of    *)
(* equal time keep their original relative order, so that the shaped       *)
(* accelerations are determined by the inputs also when event times tie.   *)
C20_StableSort ==
    ConvolutionReturned =>
        ReturnedEvents = StablySorted(ClaimedEvents, Len(ClaimedEvents))

(* The amplitude an impulse set has at time t, 0 where it has no impulse.  *)
AmplitudeAt(own, t) ==
    IF \E n \in 1 .. Len(own.impulse_times) : own.impulse_times[n] = t
    THEN own.impulses[CHOOSE n \in 1 .. Len(own.impulse_times) : own.impulse_times[n] = t]
    ELSE Zero

TimesOf(times) == {times[n] : n \in 1 .. Len(times)}

Merged == ret.op = "get_2D_impulses" /\ ret.raised = NoError

(* C21: get_2D_impulses returns impulse_times equal to the sorted union of *)
(* the impulse times of the X and the Y impulse set, and x_impulses and    *)
(* y_impulses of the same length, each holding the axis' own amplitude at  *)
(* the axis' own times and 0 at the other times, so that each sums to 1    *)
(* and y_impulses[i] is the Y amplitude at impulse_times[i].               *)
C21_MergedImpulses ==
    Merged =>
        LET v == ret.value
            x == CurrentImpulseSet(pre.x_shaper)
            y == CurrentImpulseSet(pre.y_shaper)
        IN  /\ \A n \in 1 .. Len(v.impulse_times) - 1 :
                   QLt(v.impulse_times[n], v.impulse_times[n + 1])
            /\ TimesOf(v.impulse_times) = TimesOf(x.impulse_times) \cup TimesOf(y.impulse_times)
            /\ Len(v.x_impulses) = Len(v.impulse_times)
            /\ Len(v.y_impulses) = Len(v.impulse_times)
            /\ \A n \in 1 .. Len(v.impulse_times) :
                   /\ v.x_impulses[n] = AmplitudeAt(x, v.impulse_times[n])
                   /\ v.y_impulses[n] = AmplitudeAt(y, v.impulse_times[n])
            /\ QSum(v.x_impulses) = One
            /\ QSum(v.y_impulses) = One

(* Two axes of different frequency, one of them damped: each axis lacks a  *)
(* time of the other, and the times appended to X are out of order before  *)
(* the sort.                                                               *)
C21_Witness ==
    /\ Merged
    /\ Len(ret.value.impulse_times) > Len(CurrentImpulseSet(pre.x_shaper).impulse_times)
    /\ Len(ret.value.impulse_times) > Len(CurrentImpulseSet(pre.y_shaper).impulse_times)
    /\ \E n \in 1 .. Len(ret.value.x_impulses) :
           ret.value.x_impulses[n] = Zero /\ ret.value.y_impulses[n] # Zero
    /\ ~Sorted(gen.x_shaper.impulse_times)
    /\ QSum(ret.value.y_impulses) = One

Sampled == ret.op = "shape_trapezoidal_motion" /\ IsTrajectory /\ ret.raised = NoError

(* C22: in sampled-point mode every point returned has a time of at least  *)
(* the min_timestep the generator is configured with, by its constructor   *)
(* or by the min_timestep setter since.                                    *)
C22_PointsAtLeastMinTimestep ==
    Sampled => \A n \in 1 .. Len(ret.value) : QLe(gen.min_timestep, ret.value[n].time)

(* The shaper reports the impulse set of its own plant and family.         *)
ReportsOwnImpulseSet(shaper) ==
    /\ get_impulses(shaper).value = CurrentImpulseSet(shaper).impulses
    /\ get_impulse_times(shaper).value = CurrentImpulseSet(shaper).impulse_times

(* C27: get_2D_impulses and the 2D shape_trapezoidal_motion leave the      *)
(* memoized impulse amplitudes and times of x_shaper and y_shaper as they  *)
(* were: after any number of 2D calls each shaper reports the impulse set  *)
(* of its own plant and family, of the same length and values.             *)
C27_ShaperMemoUnchanged ==
    (Is2D /\ ret.op \in {"get_2D_impulses", "shape_trapezoidal_motion"}) =>
        /\ ReportsOwnImpulseSet(gen.x_shaper)
        /\ ReportsOwnImpulseSet(gen.y_shaper)
        /\ gen.x_shaper.impulses = pre.x_shaper.impulses
        /\ gen.x_shaper.impulse_times = pre.x_shaper.impulse_times
        /\ gen.y_shaper.impulses = pre.y_shaper.impulses
        /\ gen.y_shaper.impulse_times = pre.y_shaper.impulse_times

(* C28: every damping_ratio the validator accepts (any value >= 0, values  *)
(* of 1 and above included) yields an impulse set: with the other          *)
(* parameters valid, construction with it succeeds, and once it is stored  *)
(* a get_impulses or get_impulse_times call returns and does not raise.    *)
C28_AcceptedDampingYieldsImpulses ==
    /\ (/\ ret.op = "__init__"
        /\ QLt(Zero, ret.args[1])
        /\ QLe(Zero, ret.args[2])
        /\ ret.args[3] \in ShaperType
        /\ Len(ret.args) = 4 => QLt(Zero, ret.args[4]))
           => ret.raised = NoError /\ gen # NoObject
    /\ (Read /\ QLe(Zero, gen.damping_ratio) /\ gen.shaper_type \in ShaperType)
           => ret.raised = NoError /\ ret.value # None

(* The duration of the shaped profile: the last shaped event, the last     *)
(* breakpoint delayed by the last impulse, minus the first, at time 0.     *)
ShapedDuration ==
    QAdd(Last(basic_trapezoidal_motion_generator(ret.args[1], ret.args[2],
                                                 ret.args[3], ret.args[4]).time),
         Last(gen.impulse_times))

(* C29: in sampled-point mode the times of the returned points sum to the  *)
(* duration of the shaped profile, so that the last point, forced to       *)
(* velocity 0 and the commanded distance, is the end of the move: no       *)
(* interval is lost when the time accumulated at the end of the loop is    *)
(* below the minimum timestep.                                             *)
C29_PointTimesSumToDuration ==
    Sampled => QSum([n \in 1 .. Len(ret.value) |-> ret.value[n].time]) = ShapedDuration

(* a lies between 0 and b, whichever sign b has.                           *)
Between(a, b) == IF QLt(b, Zero) THEN QLe(b, a) /\ QLe(a, Zero)
                                 ELSE QLe(Zero, a) /\ QLe(a, b)

(* The position at the end of segment n, 0 before the first.               *)
PositionAt(n) == IF n = 0 THEN Zero ELSE ret.value[n].position

(* C30: for a valid move of one axis the positions of the returned         *)
(* segments are monotone in the direction of travel, and each lies between *)
(* 0 and the commanded distance inclusive: the shaped move never reverses  *)
(* and never overshoots.                                                   *)
C30_MonotoneWithinDistance ==
    (Shaped /\ IsStream /\ ValidMove(ret.args)) =>
        \A n \in 1 .. Len(ret.value) :
            /\ Between(PositionAt(n), ret.args[1])
            /\ Between(QSub(PositionAt(n), PositionAt(n - 1)), ret.args[1])

(* A damped ZVDD move in the negative direction, with a segment in which   *)
(* the position advances and one of no duration in which it stands still.  *)
C30_Witness ==
    /\ Shaped /\ IsStream /\ ValidMove(ret.args)
    /\ QLt(ret.args[1], Zero)
    /\ gen.shaper_type = "ZVDD"
    /\ gen.damping_ratio # Zero
    /\ \E n \in 2 .. Len(ret.value) : QLt(PositionAt(n), PositionAt(n - 1))
    /\ \E n \in 2 .. Len(ret.value) : PositionAt(n) = PositionAt(n - 1)
    /\ Last(ret.value).position = ret.args[1]

(* A move_relative that was streamed and returned: of a ShapedAxis with a  *)
(* stream generator, a ShapedAxisStream or a ShapedAxisStream2D.            *)
StreamedMove ==
    /\ ret.op = "move_relative"
    /\ ret.raised = NoError
    /\ gen.cls = "ShapedAxis" => gen.shaper.cls = "ZeroVibrationStreamGenerator"

(* The wait_until_idle argument of the move.                               *)
WaitUntilIdle == IF gen.cls = "ShapedAxisStream2D" THEN ret.args[4] ELSE ret.args[3]

(* The names of the stream commands of the move, in the order issued.      *)
CommandNames == [i \in 1 .. Len(gen.stream) |-> gen.stream[i].cmd]

(* names is disable, a setup, cork, then triples of acceleration cap,      *)
(* speed cap and line, then uncork, then wait_until_idle iff wait.          *)
InOrder(names, wait) ==
    LET tail == IF wait THEN 2 ELSE 1
        segments == (Len(names) - 3 - tail) \div 3
    IN  /\ Len(names) = 3 + 3 * segments + tail
        /\ segments >= 1
        /\ names[1] = "disable"
        /\ names[2] \in {"setup_live", "setup_live_composite"}
        /\ names[3] = "cork"
        /\ \A n \in 1 .. segments :
              /\ names[3 * n + 1] = "set_max_tangential_acceleration"
              /\ names[3 * n + 2] = "set_max_speed"
              /\ names[3 * n + 3] = "line_absolute"
        /\ names[3 * segments + 4] = "uncork"
        /\ wait => names[3 * segments + 5] = "wait_until_idle"

(* C23: every streamed move_relative issues disable, setup, cork, then for *)
(* each segment set_max_tangential_acceleration, set_max_speed and         *)
(* line_absolute, then uncork, then wait_until_idle if and only if the     *)
(* flag is true; no uncork is issued without a cork before it in the move. *)
C23_StreamCommandOrder ==
    StreamedMove =>
        /\ InOrder(CommandNames, WaitUntilIdle)
        /\ \A i \in 1 .. Len(gen.stream) :
              gen.stream[i].cmd = "uncork" =>
                  \E j \in 1 .. i - 1 : gen.stream[j].cmd = "cork"

(* The value of a cap command in native units.                             *)
NativeValue(command) ==
    QMul(command.args[1],
         NativePerUnit(IF command.cmd = "set_max_speed" THEN "maxspeed" ELSE "accel",
                       command.args[2]))

(* The acceleration and speed caps among the commands of the move.         *)
CapCommand(command) ==
    command.cmd \in {"set_max_tangential_acceleration", "set_max_speed"}

(* C24: in a streamed move every tangential acceleration and every max     *)
(* speed commanded is at least 1 native unit: it is either exactly 1       *)
(* native unit, sent in place of a segment value converting to 1 native    *)
(* unit or less, or the segment's value in mm units, which converts to     *)
(* more than 1 native unit.                                                *)
C24_CapsAtLeastOneNative ==
    StreamedMove =>
        \A i \in 1 .. Len(gen.stream) :
            CapCommand(gen.stream[i]) =>
                /\ QLe(One, NativeValue(gen.stream[i]))
                /\ \/ gen.stream[i].args = <<One, "NATIVE">>
                   \/ /\ gen.stream[i].args[2] # "NATIVE"
                      /\ QLt(One, NativeValue(gen.stream[i]))

(* A ZVD move whose caps are sent both ways: an acceleration and a speed   *)
(* replaced by 1 native unit and an acceleration and a speed sent as they  *)
(* are.                                                                    *)
C24_Witness ==
    /\ StreamedMove
    /\ gen.shaper.shaper_type = "ZVD"
    /\ \A name \in {"set_max_tangential_acceleration", "set_max_speed"} :
          /\ \E i \in 1 .. Len(gen.stream) :
                /\ gen.stream[i].cmd = name
                /\ gen.stream[i].args = <<One, "NATIVE">>
          /\ \E i \in 1 .. Len(gen.stream) :
                /\ gen.stream[i].cmd = name
                /\ gen.stream[i].args[2] # "NATIVE"

(* C25: on a ShapedAxis a stream-mode move writes no device setting, a     *)
(* decel-mode move writes no setting other than motion.decelonly, and      *)
(* reset_deceleration, after any moves, sets motion.decelonly to the value *)
(* the constructor read: the value kept is the device's at construction    *)
(* and no call changes it.                                                 *)
C25_SettingsFrame ==
    gen.cls = "ShapedAxis" =>
        /\ ret.op = "__init__" =>
              gen.original_deceleration = gen.axis.settings.decelonly
        /\ pre.cls = "ShapedAxis" =>
              gen.original_deceleration = pre.original_deceleration
        /\ (ret.op = "move_relative"
                /\ gen.shaper.cls = "ZeroVibrationStreamGenerator") =>
              gen.axis.settings = pre.axis.settings
        /\ (ret.op = "move_relative" /\ gen.shaper.cls = "ZeroVibrationShaper") =>
              /\ gen.axis.settings.maxspeed = pre.axis.settings.maxspeed
              /\ gen.axis.settings.accel = pre.axis.settings.accel
        /\ ret.op = "reset_deceleration" =>
              /\ gen.axis.settings.decelonly = gen.original_deceleration
              /\ gen.axis.settings.maxspeed = pre.axis.settings.maxspeed
              /\ gen.axis.settings.accel = pre.axis.settings.accel

(* reset_deceleration undoing what decel-mode moves wrote: the axis has    *)
(* moved, motion.decelonly differed from the constructor's value before    *)
(* the call and has it again after.                                        *)
C25_Witness ==
    /\ gen.cls = "ShapedAxis"
    /\ ret.op = "reset_deceleration"
    /\ gen.shaper.cls = "ZeroVibrationShaper"
    /\ gen.axis.position # Zero
    /\ pre.axis.settings.decelonly # pre.original_deceleration
    /\ gen.axis.settings.decelonly = gen.original_deceleration

(* Every physical axis behind the axis reports homed.                      *)
AllHomed(axis) == \A n \in 1 .. Len(axis.axes) : axis.axes[n].homed

(* C26: ShapedAxisStream2D.is_homed returns True if and only if every      *)
(* physical axis behind both the X and the Y axis, each member of a        *)
(* lockstep group or the single axis, reports homed.                       *)
C26_IsHomedAllAxes ==
    ret.op = "is_homed" =>
        /\ ret.raised = NoError
        /\ ret.value = (AllHomed(gen.x_axis) /\ AllHomed(gen.y_axis))
====
